---------------------------- MODULE Spec2Model ----------------------------
(***************************************************************************)
(* Model of the SRS construction subsystem of sql/gis/srs/srs.cc:          *)
(* set_parameters (the projection parameter extractor), Geographic_srs     *)
(* and Projected_srs init, the per-projection init functions,              *)
(* new_projection, create_geographic_srs, create_projected_srs and         *)
(* gis::srs::parse_wkt.                                                     *)
(*                                                                         *)
(* Strings are sequences of one-character strings so that                  *)
(* my_strcasecmp, std::to_string and std::stoi are computed character by   *)
(* character.  Doubles are integers, with NAN a value of its own.          *)
(***************************************************************************)
EXTENDS Integers, Sequences, FiniteSets, TLC

VARIABLES
    \* one call of set_parameters on its own
    sp_pc, sp_srid, sp_parameters, sp_params, sp_slots, sp_slots0,
    sp_ret, sp_errors, sp_hits,
    \* one call of new_projection on its own
    np_pc, np_code, np_result,
    \* one call of gis::srs::parse_wkt
    pc, srid, span, result, result0, cs, res, heap, obj, allocs, errors,
    branches, grammar_calls,
    \* several callers of gis::srs::parse_wkt at once
    c_pc, c_in, c_calls, c_cs, c_res, c_flag, c_result, c_result0,
    c_errors, c_heap

sp_vars == <<sp_pc, sp_srid, sp_parameters, sp_params, sp_slots, sp_slots0,
             sp_ret, sp_errors, sp_hits>>
np_vars == <<np_pc, np_code, np_result>>
pw_vars == <<pc, srid, span, result, result0, cs, res, heap, obj, allocs,
             errors, branches, grammar_calls>>
cc_vars == <<c_pc, c_in, c_calls, c_cs, c_res, c_flag, c_result, c_result0,
             c_errors, c_heap>>
vars == <<sp_vars, np_vars, pw_vars, cc_vars>>

---------------------------------------------------------------------------
(* Bounds of the model. *)

MaxParameters == 2      \* longest PARAMETER list given to set_parameters
MaxDescriptors == 2     \* longest descriptor list given to set_parameters
MaxNegCode == 3         \* method codes from -MaxNegCode on are given to new_projection
MaxCode == 9840         \* largest method code given to new_projection
MaxExtra == 1           \* PARAMETER clauses appended to a tree's list

---------------------------------------------------------------------------
(* Doubles and strings. *)

\* NAN of <cmath>: the one double for which std::isnan holds.
NAN == -1

isnan(x) == x = NAN

INT_MAX == 2147483647

LowerCase ==
    <<"a", "b", "c", "d", "e", "f", "g", "h", "i", "j", "k", "l", "m",
      "n", "o", "p", "q", "r", "s", "t", "u", "v", "w", "x", "y", "z">>
UpperCase ==
    <<"A", "B", "C", "D", "E", "F", "G", "H", "I", "J", "K", "L", "M",
      "N", "O", "P", "Q", "R", "S", "T", "U", "V", "W", "X", "Y", "Z">>
Digits ==
    <<"0", "1", "2", "3", "4", "5", "6", "7", "8", "9">>

\* The to_upper table of my_charset_latin1, on the letters a to z; every
\* other character the model uses maps to itself.
to_upper ==
    [c \in {LowerCase[k] : k \in 1..Len(LowerCase)} |->
        UpperCase[CHOOSE k \in 1..Len(LowerCase) : LowerCase[k] = c]]

my_toupper(c) == IF c \in DOMAIN to_upper THEN to_upper[c] ELSE c

\* my_strcasecmp(&my_charset_latin1, s, t): 0 when s and t are equal up to
\* letter case, non-zero otherwise.
RECURSIVE my_strcasecmp(_, _)
my_strcasecmp(s, t) ==
    IF s = <<>> \/ t = <<>>
    THEN IF s = <<>> /\ t = <<>> THEN 0 ELSE 1
    ELSE IF my_toupper(Head(s)) = my_toupper(Head(t))
         THEN my_strcasecmp(Tail(s), Tail(t))
         ELSE 1

\* std::to_string(int)
RECURSIVE to_string_nat(_)
to_string_nat(n) ==
    IF n < 10 THEN <<Digits[n + 1]>>
    ELSE to_string_nat(n \div 10) \o <<Digits[(n % 10) + 1]>>

to_string(n) ==
    IF n < 0 THEN <<"-">> \o to_string_nat(-n) ELSE to_string_nat(n)

digit_values ==
    [c \in {Digits[k] : k \in 1..Len(Digits)} |->
        (CHOOSE k \in 1..Len(Digits) : Digits[k] = c) - 1]
isdigit(c) == c \in DOMAIN digit_values
digit_value(c) == digit_values[c]
\* isspace of the C locale: space, \t, \n, \v (0x0B), \f, \r.
isspace(c) == c \in {" ", "\t", "\n", "", "\f", "\r"}

RECURSIVE skip_space(_)
skip_space(s) ==
    IF s # <<>> /\ isspace(Head(s)) THEN skip_space(Tail(s)) ELSE s

\* The run of decimal digits at the head of s, accumulated as strtol does
\* into the negated magnitude acc (so that INT_MIN is representable);
\* range = FALSE once the magnitude exceeds INT_MAX + 1.
RECURSIVE read_digits(_, _, _)
read_digits(s, acc, range) ==
    IF s # <<>> /\ isdigit(Head(s))
    THEN LET d == digit_value(Head(s))
             fits == range /\ (acc > -(INT_MAX \div 10)
                               \/ (acc = -(INT_MAX \div 10)
                                   /\ d <= (INT_MAX % 10) + 1))
         IN  read_digits(Tail(s), IF fits THEN acc * 10 - d ELSE acc, fits)
    ELSE [negated |-> acc, range |-> range]

\* std::stoi(str): skips white space, reads an optional sign and the
\* longest run of decimal digits, ignores what follows; throws
\* invalid_argument when there is no digit and out_of_range when the
\* number does not fit an int.  thrown = TRUE stands for either exception.
stoi(str) ==
    LET s1 == skip_space(str)
        neg == s1 # <<>> /\ Head(s1) = "-"
        s2 == IF s1 # <<>> /\ Head(s1) \in {"+", "-"} THEN Tail(s1) ELSE s1
        num == read_digits(s2, 0, TRUE)
    IN  IF s2 = <<>> \/ ~isdigit(Head(s2))
        THEN [thrown |-> TRUE, value |-> 0]
        ELSE IF ~num.range \/ (~neg /\ num.negated < -INT_MAX)
             THEN [thrown |-> TRUE, value |-> 0]
             ELSE [thrown |-> FALSE,
                   value |-> IF neg THEN num.negated ELSE -num.negated]

s_EPSG == <<"E", "P", "S", "G">>
s_epsg == <<"e", "p", "s", "g">>
s_ESRI == <<"E", "S", "R", "I">>

---------------------------------------------------------------------------
(* The tables of set_parameters. *)

s_azimuth ==
    <<"a", "z", "i", "m", "u", "t", "h">>
s_c1 ==
    <<"c", "1">>
s_c10 ==
    <<"c", "1", "0">>
s_c2 ==
    <<"c", "2">>
s_c3 ==
    <<"c", "3">>
s_c4 ==
    <<"c", "4">>
s_c5 ==
    <<"c", "5">>
s_c6 ==
    <<"c", "6">>
s_c7 ==
    <<"c", "7">>
s_c8 ==
    <<"c", "8">>
s_c9 ==
    <<"c", "9">>
s_central_meridian ==
    <<"c", "e", "n", "t", "r", "a", "l", "_", "m", "e", "r", "i", "d", "i", "a", "n">>
s_ellipsoid_scale_factor ==
    <<"e", "l", "l", "i", "p", "s", "o", "i", "d", "_", "s", "c", "a", "l", "e", "_", "f", "a", "c", "t", "o", "r">>
s_evaluation_point_ordinate_1 ==
    <<"e", "v", "a", "l", "u", "a", "t", "i", "o", "n", "_", "p", "o", "i", "n", "t", "_", "o", "r", "d", "i", "n", "a", "t", "e", "_", "1">>
s_evaluation_point_ordinate_2 ==
    <<"e", "v", "a", "l", "u", "a", "t", "i", "o", "n", "_", "p", "o", "i", "n", "t", "_", "o", "r", "d", "i", "n", "a", "t", "e", "_", "2">>
s_false_easting ==
    <<"f", "a", "l", "s", "e", "_", "e", "a", "s", "t", "i", "n", "g">>
s_false_northing ==
    <<"f", "a", "l", "s", "e", "_", "n", "o", "r", "t", "h", "i", "n", "g">>
s_initial_longitude ==
    <<"i", "n", "i", "t", "i", "a", "l", "_", "l", "o", "n", "g", "i", "t", "u", "d", "e">>
s_latitude_of_center ==
    <<"l", "a", "t", "i", "t", "u", "d", "e", "_", "o", "f", "_", "c", "e", "n", "t", "e", "r">>
s_latitude_of_origin ==
    <<"l", "a", "t", "i", "t", "u", "d", "e", "_", "o", "f", "_", "o", "r", "i", "g", "i", "n">>
s_longitude_of_center ==
    <<"l", "o", "n", "g", "i", "t", "u", "d", "e", "_", "o", "f", "_", "c", "e", "n", "t", "e", "r">>
s_projection_plane_height_at_origin ==
    <<"p", "r", "o", "j", "e", "c", "t", "i", "o", "n", "_", "p", "l", "a", "n", "e", "_", "h", "e", "i", "g", "h", "t", "_", "a", "t", "_", "o", "r", "i", "g", "i", "n">>
s_pseudo_standard_parallel_1 ==
    <<"p", "s", "e", "u", "d", "o", "_", "s", "t", "a", "n", "d", "a", "r", "d", "_", "p", "a", "r", "a", "l", "l", "e", "l", "_", "1">>
s_rectified_grid_angle ==
    <<"r", "e", "c", "t", "i", "f", "i", "e", "d", "_", "g", "r", "i", "d", "_", "a", "n", "g", "l", "e">>
s_scale_factor ==
    <<"s", "c", "a", "l", "e", "_", "f", "a", "c", "t", "o", "r">>
s_standard_parallel ==
    <<"s", "t", "a", "n", "d", "a", "r", "d", "_", "p", "a", "r", "a", "l", "l", "e", "l">>
s_standard_parallel1 ==
    <<"s", "t", "a", "n", "d", "a", "r", "d", "_", "p", "a", "r", "a", "l", "l", "e", "l", "1">>
s_standard_parallel2 ==
    <<"s", "t", "a", "n", "d", "a", "r", "d", "_", "p", "a", "r", "a", "l", "l", "e", "l", "2">>
s_standard_parallel_1 ==
    <<"s", "t", "a", "n", "d", "a", "r", "d", "_", "p", "a", "r", "a", "l", "l", "e", "l", "_", "1">>
s_standard_parallel_2 ==
    <<"s", "t", "a", "n", "d", "a", "r", "d", "_", "p", "a", "r", "a", "l", "l", "e", "l", "_", "2">>
s_zone_width ==
    <<"z", "o", "n", "e", "_", "w", "i", "d", "t", "h">>

param_names(code) ==
    CASE code = 1026 -> s_c1
      [] code = 1027 -> s_c2
      [] code = 1028 -> s_c3
      [] code = 1029 -> s_c4
      [] code = 1030 -> s_c5
      [] code = 1031 -> s_c6
      [] code = 1032 -> s_c7
      [] code = 1033 -> s_c8
      [] code = 1034 -> s_c9
      [] code = 1035 -> s_c10
      [] code = 1036 -> s_azimuth
      [] code = 1038 -> s_ellipsoid_scale_factor
      [] code = 1039 -> s_projection_plane_height_at_origin
      [] code = 8617 -> s_evaluation_point_ordinate_1
      [] code = 8618 -> s_evaluation_point_ordinate_2
      [] code = 8801 -> s_latitude_of_origin
      [] code = 8802 -> s_central_meridian
      [] code = 8805 -> s_scale_factor
      [] code = 8806 -> s_false_easting
      [] code = 8807 -> s_false_northing
      [] code = 8811 -> s_latitude_of_center
      [] code = 8812 -> s_longitude_of_center
      [] code = 8813 -> s_azimuth
      [] code = 8814 -> s_rectified_grid_angle
      [] code = 8815 -> s_scale_factor
      [] code = 8816 -> s_false_easting
      [] code = 8817 -> s_false_northing
      [] code = 8818 -> s_pseudo_standard_parallel_1
      [] code = 8819 -> s_scale_factor
      [] code = 8821 -> s_latitude_of_origin
      [] code = 8822 -> s_central_meridian
      [] code = 8823 -> s_standard_parallel_1
      [] code = 8824 -> s_standard_parallel_2
      [] code = 8826 -> s_false_easting
      [] code = 8827 -> s_false_northing
      [] code = 8830 -> s_initial_longitude
      [] code = 8831 -> s_zone_width
      [] code = 8832 -> s_standard_parallel
      [] code = 8833 -> s_longitude_of_center
      [] OTHER -> <<>>

param_aliases(code) ==
    CASE code = 8823 -> s_standard_parallel1
      [] code = 8824 -> s_standard_parallel2
      [] OTHER -> <<>>

---------------------------------------------------------------------------
(* set_parameters *)

\* my_error(ER_SRS_PROJ_PARAMETER_MISSING, MYF(0), srid, name, epsg_code)
proj_parameter_missing(id, code) ==
    [error |-> "ER_SRS_PROJ_PARAMETER_MISSING", srid |-> id,
     name |-> param_names(code), epsg_code |-> code, by |-> "set_parameters"]

\* parameter_matches without the look-up in param_aliases.
parameter_matches_no_alias(prm, code) ==
    IF my_strcasecmp(s_EPSG, prm.authority.name) = 0
    THEN my_strcasecmp(to_string(code), prm.authority.code) = 0
    ELSE my_strcasecmp(param_names(code), prm.name) = 0

\* parameter_matches with the name and alias tests tried whenever the code
\* test did not match, whatever the authority.
parameter_matches_name_fallback(prm, code) ==
    IF my_strcasecmp(s_EPSG, prm.authority.name) = 0
       /\ my_strcasecmp(to_string(code), prm.authority.code) = 0
    THEN TRUE
    ELSE IF my_strcasecmp(param_names(code), prm.name) = 0
         THEN TRUE
         ELSE my_strcasecmp(param_aliases(code), prm.name) = 0

\* parameter_matches with the names compared by strcmp, letter case
\* included.
parameter_matches_case_sensitive(prm, code) ==
    IF my_strcasecmp(s_EPSG, prm.authority.name) = 0
    THEN my_strcasecmp(to_string(code), prm.authority.code) = 0
    ELSE IF param_names(code) = prm.name
         THEN TRUE
         ELSE param_aliases(code) = prm.name

\* parameter_matches that never looks at the authority clause: the name
\* and alias tests only.
parameter_matches_ignores_authority(prm, code) ==
    IF my_strcasecmp(param_names(code), prm.name) = 0
    THEN TRUE
    ELSE my_strcasecmp(param_aliases(code), prm.name) = 0

\* parameter_matches with the EPSG code compared on its first three
\* characters only.
parameter_matches_code_prefix(prm, code) ==
    IF my_strcasecmp(s_EPSG, prm.authority.name) = 0
    THEN my_strcasecmp(SubSeq(to_string(code), 1, 3),
                       SubSeq(prm.authority.code, 1, 3)) = 0
    ELSE IF my_strcasecmp(param_names(code), prm.name) = 0
         THEN TRUE
         ELSE my_strcasecmp(param_aliases(code), prm.name) = 0

\* The condition under which the body of the inner loop assigns the value
\* of the parsed parameter prm to the slot of the descriptor with this code.
parameter_matches(prm, code) ==
    IF my_strcasecmp(s_EPSG, prm.authority.name) = 0
    THEN my_strcasecmp(to_string(code), prm.authority.code) = 0
    ELSE IF my_strcasecmp(param_names(code), prm.name) = 0
         THEN TRUE
         ELSE my_strcasecmp(param_aliases(code), prm.name) = 0

\* assign_parameter that leaves alone a slot that already holds a number.
assign_parameter_first_wins(prm, code, cur) ==
    IF parameter_matches(prm, code) /\ isnan(cur) THEN prm.value ELSE cur

\* assign_parameter that writes NAN into the slot when the parameter does
\* not match, instead of leaving the slot alone.
assign_parameter_clears_unmatched(prm, code, cur) ==
    IF parameter_matches(prm, code) THEN prm.value ELSE NAN

\* assign_parameter that does not store the value of a matching parameter
\* when that value is NAN.
assign_parameter_skips_nan(prm, code, cur) ==
    IF parameter_matches(prm, code) /\ ~isnan(prm.value)
    THEN prm.value ELSE cur

\* One pass of the inner loop body: the new content of a slot that holds cur.
assign_parameter(prm, code, cur) ==
    IF parameter_matches(prm, code) THEN prm.value ELSE cur

\* match_descriptors with the loop bound one short, j + 1 < params->size():
\* the last descriptor is never tried.
RECURSIVE match_descriptors_skip_last(_, _, _, _, _)
match_descriptors_skip_last(parameters, i, params, j, st) ==
    IF j + 1 > Len(params) THEN st
    ELSE match_descriptors_skip_last(parameters, i, params, j + 1,
           [slots |-> [st.slots EXCEPT
                         ![j] = assign_parameter(parameters[i], params[j], @)],
            hits |-> IF parameter_matches(parameters[i], params[j])
                     THEN st.hits \cup {<<i, j>>} ELSE st.hits])

\* The inner loop, for (j = 0; j < params->size(); j++), from descriptor j on.
\* st.slots are the doubles the descriptors point to, st.hits the
\* (parameter, descriptor) pairs whose assignment has run.
RECURSIVE match_descriptors(_, _, _, _, _)
match_descriptors(parameters, i, params, j, st) ==
    IF j > Len(params) THEN st
    ELSE match_descriptors(parameters, i, params, j + 1,
           [slots |-> [st.slots EXCEPT
                         ![j] = assign_parameter(parameters[i], params[j], @)],
            hits |-> IF parameter_matches(parameters[i], params[j])
                     THEN st.hits \cup {<<i, j>>} ELSE st.hits])

\* The outer loop over proj->parameters, from parameter i on.
RECURSIVE match_parameters(_, _, _, _)
match_parameters(parameters, i, params, st) ==
    IF i > Len(parameters) THEN st
    ELSE match_parameters(parameters, i + 1, params,
                          match_descriptors(parameters, i, params, 1, st))

\* check_mandatory without the return inside the loop: every NAN slot is
\* reported.
RECURSIVE check_mandatory_report_all(_, _, _, _)
check_mandatory_report_all(id, params, slots, i) ==
    IF i > Len(params) THEN [ret |-> FALSE, errors |-> <<>>]
    ELSE LET rest == check_mandatory_report_all(id, params, slots, i + 1)
         IN  IF isnan(slots[i])
             THEN [ret |-> TRUE,
                   errors |-> <<proj_parameter_missing(id, params[i])>>
                              \o rest.errors]
             ELSE rest

\* check_mandatory with the loop run from the last descriptor down: the
\* last descriptor whose slot is NAN is the one reported.
RECURSIVE check_mandatory_reports_last(_, _, _, _)
check_mandatory_reports_last(id, params, slots, i) ==
    IF i > Len(params) THEN [ret |-> FALSE, errors |-> <<>>]
    ELSE LET rest == check_mandatory_reports_last(id, params, slots, i + 1)
         IN  IF rest.ret THEN rest
             ELSE IF isnan(slots[i])
                  THEN [ret |-> TRUE,
                        errors |-> <<proj_parameter_missing(id, params[i])>>]
                  ELSE rest

\* The post-pass: the first descriptor whose slot is still NAN is reported
\* and the function returns true; false when there is none.
RECURSIVE check_mandatory(_, _, _, _)
check_mandatory(id, params, slots, i) ==
    IF i > Len(params) THEN [ret |-> FALSE, errors |-> <<>>]
    ELSE IF isnan(slots[i])
         THEN [ret |-> TRUE,
               errors |-> <<proj_parameter_missing(id, params[i])>>]
         ELSE check_mandatory(id, params, slots, i + 1)

\* set_parameters(srid, proj, params): params is the list of EPSG codes and
\* slots the doubles their pointers refer to (one distinct double each).
set_parameters(id, parameters, params, slots) ==
    LET st == match_parameters(parameters, 1, params,
                               [slots |-> slots, hits |-> {}])
        post == check_mandatory(id, params, st.slots, 1)
    IN  [ret |-> post.ret, slots |-> st.slots, errors |-> post.errors,
         hits |-> st.hits]

---------------------------------------------------------------------------
(* The SRS objects and their init functions. *)

\* Geographic_srs(): every double NAN, both axes UNSPECIFIED.
Geographic_srs ==
    [kind |-> "Geographic_srs",
     semi_major_axis |-> NAN, inverse_flattening |-> NAN,
     towgs84 |-> <<NAN, NAN, NAN, NAN, NAN, NAN, NAN>>,
     prime_meridian |-> NAN, angular_unit |-> NAN,
     axes |-> <<"UNSPECIFIED", "UNSPECIFIED">>]

\* Geographic_srs_init that returns true (failure) for a tree without a
\* valid TOWGS84 clause.
Geographic_srs_init_requires_towgs84(self, g) ==
    LET s1 == [self EXCEPT
                 !.semi_major_axis = g.datum.spheroid.semi_major_axis,
                 !.inverse_flattening = g.datum.spheroid.inverse_flattening]
        s2 == IF g.datum.towgs84.valid
              THEN [s1 EXCEPT !.towgs84 =
                      <<g.datum.towgs84.dx, g.datum.towgs84.dy,
                        g.datum.towgs84.dz, g.datum.towgs84.ex,
                        g.datum.towgs84.ey, g.datum.towgs84.ez,
                        g.datum.towgs84.ppm>>]
              ELSE s1
        s3 == [s2 EXCEPT
                 !.prime_meridian = g.prime_meridian.longitude,
                 !.angular_unit = g.angular_unit.conversion_factor]
        s4 == IF g.axes.valid
              THEN [s3 EXCEPT !.axes = <<g.axes.x.direction,
                                         g.axes.y.direction>>]
              ELSE s3
    IN  [ret |-> ~g.datum.towgs84.valid, self |-> s4, errors |-> <<>>]

\* Geographic_srs_init that copies the two axis directions without testing
\* g.axes.valid.
Geographic_srs_init_axes_unconditional(self, g) ==
    LET s1 == [self EXCEPT
                 !.semi_major_axis = g.datum.spheroid.semi_major_axis,
                 !.inverse_flattening = g.datum.spheroid.inverse_flattening]
        s2 == IF g.datum.towgs84.valid
              THEN [s1 EXCEPT !.towgs84 =
                      <<g.datum.towgs84.dx, g.datum.towgs84.dy,
                        g.datum.towgs84.dz, g.datum.towgs84.ex,
                        g.datum.towgs84.ey, g.datum.towgs84.ez,
                        g.datum.towgs84.ppm>>]
              ELSE s1
        s3 == [s2 EXCEPT
                 !.prime_meridian = g.prime_meridian.longitude,
                 !.angular_unit = g.angular_unit.conversion_factor]
        s4 == [s3 EXCEPT !.axes = <<g.axes.x.direction,
                                    g.axes.y.direction>>]
    IN  [ret |-> FALSE, self |-> s4, errors |-> <<>>]

\* Geographic_srs_init with the rotations stored before the translations:
\* m_towgs84 receives ex, ey, ez, dx, dy, dz, ppm.
Geographic_srs_init_shift_reordered(self, g) ==
    LET s1 == [self EXCEPT
                 !.semi_major_axis = g.datum.spheroid.semi_major_axis,
                 !.inverse_flattening = g.datum.spheroid.inverse_flattening]
        s2 == IF g.datum.towgs84.valid
              THEN [s1 EXCEPT !.towgs84 =
                      <<g.datum.towgs84.ex, g.datum.towgs84.ey,
                        g.datum.towgs84.ez, g.datum.towgs84.dx,
                        g.datum.towgs84.dy, g.datum.towgs84.dz,
                        g.datum.towgs84.ppm>>]
              ELSE s1
        s3 == [s2 EXCEPT
                 !.prime_meridian = g.prime_meridian.longitude,
                 !.angular_unit = g.angular_unit.conversion_factor]
        s4 == IF g.axes.valid
              THEN [s3 EXCEPT !.axes = <<g.axes.x.direction,
                                         g.axes.y.direction>>]
              ELSE s3
    IN  [ret |-> FALSE, self |-> s4, errors |-> <<>>]

\* Geographic_srs::init(srid, g)
Geographic_srs_init(self, g) ==
    LET s1 == [self EXCEPT
                 !.semi_major_axis = g.datum.spheroid.semi_major_axis,
                 !.inverse_flattening = g.datum.spheroid.inverse_flattening]
        s2 == IF g.datum.towgs84.valid
              THEN [s1 EXCEPT !.towgs84 =
                      <<g.datum.towgs84.dx, g.datum.towgs84.dy,
                        g.datum.towgs84.dz, g.datum.towgs84.ex,
                        g.datum.towgs84.ey, g.datum.towgs84.ez,
                        g.datum.towgs84.ppm>>]
              ELSE s1
        s3 == [s2 EXCEPT
                 !.prime_meridian = g.prime_meridian.longitude,
                 !.angular_unit = g.angular_unit.conversion_factor]
        s4 == IF g.axes.valid
              THEN [s3 EXCEPT !.axes = <<g.axes.x.direction,
                                         g.axes.y.direction>>]
              ELSE s3
    IN  [ret |-> FALSE, self |-> s4, errors |-> <<>>]

\* The descriptor list (EPSG parameter codes, in push_back order) that the
\* init function of each projection class hands to set_parameters.
init_params(kind) ==
    CASE kind = "Unknown_projected_srs" ->
           <<>>
      [] kind = "Popular_visualisation_pseudo_mercator_srs" ->
           <<8801, 8802, 8806, 8807>>
      [] kind = "Lambert_azimuthal_equal_area_spherical_srs" ->
           <<8801, 8802, 8806, 8807>>
      [] kind = "Equidistant_cylindrical_srs" ->
           <<8823, 8802, 8806, 8807>>
      [] kind = "Equidistant_cylindrical_spherical_srs" ->
           <<8823, 8802, 8806, 8807>>
      [] kind = "Krovak_north_orientated_srs" ->
           <<8811, 8833, 1036, 8818, 8819, 8806, 8807>>
      [] kind = "Krovak_modified_srs" ->
           <<8811, 8833, 1036, 8818, 8819, 8806, 8807, 8617, 8618, 1026, 1027, 1028, 1029, 1030, 1031, 1032, 1033, 1034, 1035>>
      [] kind = "Krovak_modified_north_orientated_srs" ->
           <<8811, 8833, 1036, 8818, 8819, 8806, 8807, 8617, 8618, 1026, 1027, 1028, 1029, 1030, 1031, 1032, 1033, 1034, 1035>>
      [] kind = "Lambert_conic_conformal_2sp_michigan_srs" ->
           <<8821, 8822, 8823, 8824, 8826, 8827, 1038>>
      [] kind = "Colombia_urban_srs" ->
           <<8801, 8802, 8806, 8807, 1039>>
      [] kind = "Lambert_conic_conformal_1sp_srs" ->
           <<8801, 8802, 8805, 8806, 8807>>
      [] kind = "Lambert_conic_conformal_2sp_srs" ->
           <<8821, 8822, 8823, 8824, 8826, 8827>>
      [] kind = "Lambert_conic_conformal_2sp_belgium_srs" ->
           <<8821, 8822, 8823, 8824, 8826, 8827>>
      [] kind = "Mercator_variant_a_srs" ->
           <<8801, 8802, 8805, 8806, 8807>>
      [] kind = "Mercator_variant_b_srs" ->
           <<8823, 8802, 8806, 8807>>
      [] kind = "Cassini_soldner_srs" ->
           <<8801, 8802, 8806, 8807>>
      [] kind = "Transverse_mercator_srs" ->
           <<8801, 8802, 8805, 8806, 8807>>
      [] kind = "Transverse_mercator_south_orientated_srs" ->
           <<8801, 8802, 8805, 8806, 8807>>
      [] kind = "Oblique_stereographic_srs" ->
           <<8801, 8802, 8805, 8806, 8807>>
      [] kind = "Polar_stereographic_variant_a_srs" ->
           <<8801, 8802, 8805, 8806, 8807>>
      [] kind = "New_zealand_map_grid_srs" ->
           <<8801, 8802, 8806, 8807>>
      [] kind = "Hotine_oblique_mercator_variant_a_srs" ->
           <<8811, 8812, 8813, 8814, 8815, 8806, 8807>>
      [] kind = "Laborde_oblique_mercator_srs" ->
           <<8811, 8812, 8813, 8815, 8806, 8807>>
      [] kind = "Hotine_oblique_mercator_variant_b_srs" ->
           <<8811, 8812, 8813, 8814, 8815, 8816, 8817>>
      [] kind = "Tunisia_mining_grid_srs" ->
           <<8821, 8822, 8826, 8827>>
      [] kind = "Lambert_conic_near_conformal_srs" ->
           <<8801, 8802, 8805, 8806, 8807>>
      [] kind = "American_polyconic_srs" ->
           <<8801, 8802, 8806, 8807>>
      [] kind = "Krovak_srs" ->
           <<8811, 8833, 1036, 8818, 8819, 8806, 8807>>
      [] kind = "Lambert_azimuthal_equal_area_srs" ->
           <<8801, 8802, 8806, 8807>>
      [] kind = "Albers_equal_area_srs" ->
           <<8821, 8822, 8823, 8824, 8826, 8827>>
      [] kind = "Transverse_mercator_zoned_grid_system_srs" ->
           <<8801, 8830, 8831, 8805, 8806, 8807>>
      [] kind = "Lambert_conic_conformal_west_orientated_srs" ->
           <<8801, 8802, 8805, 8806, 8807>>
      [] kind = "Bonne_south_orientated_srs" ->
           <<8801, 8802, 8806, 8807>>
      [] kind = "Polar_stereographic_variant_b_srs" ->
           <<8832, 8833, 8806, 8807>>
      [] kind = "Polar_stereographic_variant_c_srs" ->
           <<8832, 8833, 8826, 8827>>
      [] kind = "Guam_projection_srs" ->
           <<8801, 8802, 8806, 8807>>
      [] kind = "Modified_azimuthal_equidistant_srs" ->
           <<8801, 8802, 8806, 8807>>
      [] kind = "Hyperbolic_cassini_soldner_srs" ->
           <<8801, 8802, 8806, 8807>>
      [] kind = "Lambert_cylindrical_equal_area_spherical_srs" ->
           <<8823, 8802, 8806, 8807>>
      [] kind = "Lambert_cylindrical_equal_area_srs" ->
           <<8823, 8802, 8806, 8807>>
      [] OTHER -> <<>>

\* The constructor of a projection class: the base Projected_srs members
\* (an embedded Geographic_srs, NAN linear unit, UNSPECIFIED axes) and one
\* NAN double per parameter member, in the order of init_params.
Projected_srs(kind) ==
    [kind |-> kind,
     geographic_srs |-> Geographic_srs,
     linear_unit |-> NAN,
     axes |-> <<"UNSPECIFIED", "UNSPECIFIED">>,
     slots |-> [j \in 1..Len(init_params(kind)) |-> NAN]]

\* Projected_srs_init that stores a valid axis clause of the projected
\* node in the nested geographic value as well.
Projected_srs_init_axes_into_geographic(self, id, p) ==
    LET g == Geographic_srs_init(self.geographic_srs, p.geographic_cs)
        s1 == [self EXCEPT !.geographic_srs = g.self,
                           !.linear_unit = p.linear_unit.conversion_factor]
        s2 == IF p.axes.valid
              THEN [s1 EXCEPT !.axes = <<p.axes.x.direction,
                                         p.axes.y.direction>>,
                              !.geographic_srs.axes =
                                  <<p.axes.x.direction, p.axes.y.direction>>]
              ELSE s1
    IN  [ret |-> g.ret, self |-> s2, errors |-> g.errors]

\* Projected_srs::init(srid, p)
Projected_srs_init(self, id, p) ==
    LET g == Geographic_srs_init(self.geographic_srs, p.geographic_cs)
        s1 == [self EXCEPT !.geographic_srs = g.self,
                           !.linear_unit = p.linear_unit.conversion_factor]
        s2 == IF p.axes.valid
              THEN [s1 EXCEPT !.axes = <<p.axes.x.direction,
                                         p.axes.y.direction>>]
              ELSE s1
    IN  [ret |-> g.ret, self |-> s2, errors |-> g.errors]

\* Unknown_projected_srs::init(srid, p)
Unknown_projected_srs_init(self, id, p) ==
    Projected_srs_init(self, id, p)

\* projection_init with res = Projected_srs::init(srid, p) followed by a
\* call of set_parameters whose return value is dropped.
projection_init_drops_set_parameters(self, id, p) ==
    LET base == Projected_srs_init(self, id, p)
        sp == set_parameters(id, p.parameters, init_params(self.kind),
                             base.self.slots)
    IN  [ret |-> base.ret,
         self |-> [base.self EXCEPT !.slots = sp.slots],
         errors |-> base.errors \o sp.errors]

\* projection_init that runs set_parameters first and returns at once
\* when it fails, Projected_srs::init not having run.
projection_init_params_first(self, id, p) ==
    LET sp == set_parameters(id, p.parameters, init_params(self.kind),
                             self.slots)
        base == Projected_srs_init(self, id, p)
    IN  IF sp.ret
        THEN [ret |-> TRUE,
              self |-> [self EXCEPT !.slots = sp.slots],
              errors |-> sp.errors]
        ELSE [ret |-> base.ret,
              self |-> [base.self EXCEPT !.slots = sp.slots],
              errors |-> base.errors \o sp.errors]

\* <Projection>_srs::init(srid, p) of every other projection class:
\* res = Projected_srs::init(srid, p); res |= set_parameters(srid, p, &params)
projection_init(self, id, p) ==
    LET base == Projected_srs_init(self, id, p)
        sp == set_parameters(id, p.parameters, init_params(self.kind),
                             base.self.slots)
    IN  [ret |-> base.ret \/ sp.ret,
         self |-> [base.self EXCEPT !.slots = sp.slots],
         errors |-> base.errors \o sp.errors]

\* The virtual call (*srs)->init(srid, proj)
virtual_init(self, id, p) ==
    IF self.kind = "Unknown_projected_srs"
    THEN Unknown_projected_srs_init(self, id, p)
    ELSE projection_init(self, id, p)

---------------------------------------------------------------------------
(* new_projection, create_geographic_srs, create_projected_srs *)

\* The case labels of the switch in new_projection with the class each one
\* allocates.
projection_switch ==
    {<<0, "Unknown_projected_srs">>,
     <<1024, "Popular_visualisation_pseudo_mercator_srs">>,
     <<1027, "Lambert_azimuthal_equal_area_spherical_srs">>,
     <<1028, "Equidistant_cylindrical_srs">>,
     <<1029, "Equidistant_cylindrical_spherical_srs">>,
     <<1041, "Krovak_north_orientated_srs">>,
     <<1042, "Krovak_modified_srs">>,
     <<1043, "Krovak_modified_north_orientated_srs">>,
     <<1051, "Lambert_conic_conformal_2sp_michigan_srs">>,
     <<1052, "Colombia_urban_srs">>,
     <<9801, "Lambert_conic_conformal_1sp_srs">>,
     <<9802, "Lambert_conic_conformal_2sp_srs">>,
     <<9803, "Lambert_conic_conformal_2sp_belgium_srs">>,
     <<9804, "Mercator_variant_a_srs">>,
     <<9805, "Mercator_variant_b_srs">>,
     <<9806, "Cassini_soldner_srs">>,
     <<9807, "Transverse_mercator_srs">>,
     <<9808, "Transverse_mercator_south_orientated_srs">>,
     <<9809, "Oblique_stereographic_srs">>,
     <<9810, "Polar_stereographic_variant_a_srs">>,
     <<9811, "New_zealand_map_grid_srs">>,
     <<9812, "Hotine_oblique_mercator_variant_a_srs">>,
     <<9813, "Laborde_oblique_mercator_srs">>,
     <<9815, "Hotine_oblique_mercator_variant_b_srs">>,
     <<9816, "Tunisia_mining_grid_srs">>,
     <<9817, "Lambert_conic_near_conformal_srs">>,
     <<9818, "American_polyconic_srs">>,
     <<9819, "Krovak_srs">>,
     <<9820, "Lambert_azimuthal_equal_area_srs">>,
     <<9822, "Albers_equal_area_srs">>,
     <<9824, "Transverse_mercator_zoned_grid_system_srs">>,
     <<9826, "Lambert_conic_conformal_west_orientated_srs">>,
     <<9828, "Bonne_south_orientated_srs">>,
     <<9829, "Polar_stereographic_variant_b_srs">>,
     <<9830, "Polar_stereographic_variant_c_srs">>,
     <<9831, "Guam_projection_srs">>,
     <<9832, "Modified_azimuthal_equidistant_srs">>,
     <<9833, "Hyperbolic_cassini_soldner_srs">>,
     <<9834, "Lambert_cylindrical_equal_area_spherical_srs">>,
     <<9835, "Lambert_cylindrical_equal_area_srs">>}

\* new_projection with the case label of 9835 missing.
new_projection_missing_case(epsg_code) ==
    IF epsg_code # 9835 /\ \E c \in projection_switch : c[1] = epsg_code
    THEN (CHOOSE c \in projection_switch : c[1] = epsg_code)[2]
    ELSE "Unknown_projected_srs"

\* new_projection(epsg_code): the class of the object the switch allocates;
\* the default label allocates an Unknown_projected_srs.
new_projection(epsg_code) ==
    IF \E c \in projection_switch : c[1] = epsg_code
    THEN (CHOOSE c \in projection_switch : c[1] = epsg_code)[2]
    ELSE "Unknown_projected_srs"

\* create_geographic_srs(srid, geog, srs): *srs = new Geographic_srs(),
\* then init.  new_object is the object *srs points to on return.
create_geographic_srs(id, geog) ==
    LET r == Geographic_srs_init(Geographic_srs, geog)
    IN  [ret |-> r.ret, new_object |-> r.self, errors |-> r.errors]

\* projection_epsg_code without the test of the authority name.
projection_epsg_code_any_authority(proj) ==
    LET n == stoi(proj.projection.authority.code)
    IN  IF n.thrown THEN 0 ELSE n.value

\* projection_epsg_code that takes the number only from a code that is
\* decimal digits from its first to its last character.
projection_epsg_code_whole_string(proj) ==
    IF my_strcasecmp(s_EPSG, proj.projection.authority.name) = 0
    THEN LET n == stoi(proj.projection.authority.code)
         IN  IF n.thrown
                \/ \E k \in 1..Len(proj.projection.authority.code) :
                      ~isdigit(proj.projection.authority.code[k])
             THEN 0 ELSE n.value
    ELSE 0

\* The EPSG method code create_projected_srs resolves from the projection's
\* authority clause.
projection_epsg_code(proj) ==
    IF my_strcasecmp(s_EPSG, proj.projection.authority.name) = 0
    THEN LET n == stoi(proj.projection.authority.code)
         IN  IF n.thrown THEN 0 ELSE n.value
    ELSE 0

\* create_projected_srs whose epsg_code stays 0 whatever the authority clause.
create_projected_srs_code0(id, proj) ==
    LET r == virtual_init(Projected_srs(new_projection(0)), id, proj)
    IN  [ret |-> r.ret, new_object |-> r.self, errors |-> r.errors]

\* create_projected_srs(srid, proj, srs)
create_projected_srs(id, proj) ==
    LET r == virtual_init(Projected_srs(new_projection(projection_epsg_code(proj))),
                          id, proj)
    IN  [ret |-> r.ret, new_object |-> r.self, errors |-> r.errors]

---------------------------------------------------------------------------
(* Inputs *)

SeqsUpTo(S, n) == UNION {[1..k -> S] : k \in 0..n}

s_x == <<"x">>
s_8801 == <<"8", "8", "0", "1">>
s_8807 == <<"8", "8", "0", "7">>
s_8823 == <<"8", "8", "2", "3">>
s_9807 == <<"9", "8", "0", "7">>
s_9807abc == <<"9", "8", "0", "7", "a", "b", "c">>
s_9814 == <<"9", "8", "1", "4">>
s_1024 == <<"1", "0", "2", "4">>
s_ABC == <<"A", "B", "C">>

\* A parsed PARAMETER clause; a clause without AUTHORITY has empty
\* authority strings.
Parameter(n, an, ac, v) ==
    [name |-> n, authority |-> [name |-> an, code |-> ac], value |-> v]

\* The PARAMETER clauses of the set_parameters runs: matched by name (with
\* two numbers and with NAN), by EPSG code (lower-case authority), by
\* alias, carrying an EPSG code that belongs to another descriptor than
\* its name, unnamed with a non-EPSG authority, and with a name no table
\* holds.
SpParameters ==
    {Parameter(s_latitude_of_origin, <<>>, <<>>, 1),
     Parameter(s_latitude_of_origin, <<>>, <<>>, 2),
     Parameter(s_latitude_of_origin, <<>>, <<>>, NAN),
     Parameter(s_x, s_epsg, s_8801, 3),
     Parameter(s_standard_parallel1, <<>>, <<>>, 4),
     Parameter(s_latitude_of_origin, s_EPSG, s_8823, 5),
     Parameter(<<>>, s_ESRI, s_8801, 6),
     Parameter(s_x, <<>>, <<>>, 7)}

\* Descriptor codes of the set_parameters runs (8823 declares an alias).
SpCodes == {8801, 8823}

\* What a slot holds before the call: NAN (mandatory) or the default 0.
SpSeeds == {NAN, 0}

SRIDs == {4326, 32632}

Towgs84(v) ==
    IF v THEN [valid |-> TRUE, dx |-> 21, dy |-> 22, dz |-> 23, ex |-> 24,
               ey |-> 25, ez |-> 26, ppm |-> 27]
    ELSE [valid |-> FALSE, dx |-> 0, dy |-> 0, dz |-> 0, ex |-> 0,
          ey |-> 0, ez |-> 0, ppm |-> 0]

\* A Twin_axes clause.  One that is not valid still carries the direction
\* read for its first axis.
Axes(v, xdir, ydir) ==
    IF v THEN [valid |-> TRUE, x |-> [direction |-> xdir],
               y |-> [direction |-> ydir]]
    ELSE [valid |-> FALSE, x |-> [direction |-> xdir],
          y |-> [direction |-> "UNSPECIFIED"]]

\* Geographic_cs trees the grammar hands back.
GeographicTrees ==
    {[tag |-> "Geographic_cs",
      datum |-> [spheroid |-> [semi_major_axis |-> 11,
                               inverse_flattening |-> 12],
                 towgs84 |-> Towgs84(t)],
      prime_meridian |-> [longitude |-> 13],
      angular_unit |-> [conversion_factor |-> 14],
      axes |-> Axes(a, "NORTH", "EAST")] : t \in BOOLEAN, a \in BOOLEAN}

\* The five PARAMETER clauses of a Transverse Mercator definition, by name.
TransverseMercatorParameters ==
    <<Parameter(s_latitude_of_origin, <<>>, <<>>, 31),
      Parameter(s_central_meridian, <<>>, <<>>, 32),
      Parameter(s_scale_factor, <<>>, <<>>, 33),
      Parameter(s_false_easting, <<>>, <<>>, 34),
      Parameter(s_false_northing, <<>>, <<>>, 35)>>

\* s without its k-th element (s itself for k = 0).
Drop(s, k) ==
    [j \in 1..(Len(s) - (IF k = 0 THEN 0 ELSE 1)) |->
        IF k = 0 \/ j < k THEN s[j] ELSE s[j + 1]]

\* Clauses appended to a tree's PARAMETER list.
ExtraParameters ==
    {Parameter(s_x, s_EPSG, s_8807, 36),
     Parameter(s_false_northing, <<>>, <<>>, 37),
     Parameter(s_false_northing, <<>>, <<>>, NAN),
     Parameter(s_x, <<>>, <<>>, 38)}

\* PARAMETER lists that give the first clauses of a Transverse Mercator
\* definition and then latitude_of_origin once more, with NAN.
NanLatitudeLists ==
    {SubSeq(TransverseMercatorParameters, 1, k)
        \o <<Parameter(s_latitude_of_origin, <<>>, <<>>, NAN)>> :
        k \in 0..Len(TransverseMercatorParameters)}

TreeParameterLists ==
    {Drop(TransverseMercatorParameters, k) \o e :
        k \in 0..Len(TransverseMercatorParameters),
        e \in SeqsUpTo(ExtraParameters, MaxExtra)}
    \cup SeqsUpTo(ExtraParameters, MaxExtra)
    \cup NanLatitudeLists

\* AUTHORITY clauses of the PROJECTION element.
ProjectionAuthorities ==
    {[name |-> s_EPSG, code |-> s_9807], [name |-> s_epsg, code |-> s_9807],
     [name |-> s_ESRI, code |-> s_9807], [name |-> s_EPSG, code |-> s_ABC],
     [name |-> s_EPSG, code |-> s_9807abc],
     [name |-> s_EPSG, code |-> s_9814],
     [name |-> s_EPSG, code |-> s_1024], [name |-> <<>>, code |-> <<>>]}

\* Projected_cs trees the grammar hands back.
ProjectedTrees ==
    {[tag |-> "Projected_cs",
      geographic_cs |-> g,
      projection |-> [authority |-> au],
      parameters |-> ps,
      linear_unit |-> [conversion_factor |-> 15],
      axes |-> Axes(a, "EAST", "NORTH")] :
        g \in GeographicTrees, au \in ProjectionAuthorities,
        ps \in TreeParameterLists, a \in BOOLEAN}

\* The Coordinate_system variant before the grammar has filled it.
NoTree == [tag |-> "none"]

\* No object.
NoObject == [kind |-> "none"]

NULLPTR == 0        \* nullptr
STALE == 1          \* a pointer the caller left in *result before the call
FIRST_NEW == 2      \* the first address of the free store other than STALE

\* The pointers operator new may return when the objects at the addresses
\* used are on the free store: any address of pool that is not in use, the
\* address of an object deleted before among them.  Which one is
\* unspecified.
new_pointer(pool, used) == {p \in pool : p \notin used}

\* The addresses the object of a single call can have, as far as the
\* caller can tell: the one the caller left in *result, whose object it may
\* have deleted, and another one.
CallAddresses == {STALE, FIRST_NEW}

\* my_error(ER_SRS_PARSE_ERROR, MYF(0), srid)
parse_error(id, who) ==
    [error |-> "ER_SRS_PARSE_ERROR", srid |-> id, name |-> <<>>,
     epsg_code |-> 0, by |-> who]

---------------------------------------------------------------------------
(* The specifications. *)

sp_idle ==
    /\ sp_pc = "idle" /\ sp_srid = 0 /\ sp_parameters = <<>>
    /\ sp_params = <<>> /\ sp_slots = <<>> /\ sp_slots0 = <<>>
    /\ sp_ret = FALSE /\ sp_errors = <<>> /\ sp_hits = {}

np_idle ==
    /\ np_pc = "idle" /\ np_code = 0 /\ np_result = "none"

pw_idle ==
    /\ pc = "idle" /\ srid = 0 /\ span = "text" /\ result = NULLPTR
    /\ result0 = NULLPTR /\ cs = NoTree /\ res = FALSE /\ heap = {}
    /\ obj = NoObject /\ allocs = 0 /\ errors = <<>> /\ branches = {}
    /\ grammar_calls = 0

cc_idle ==
    /\ c_pc = <<>> /\ c_in = <<>> /\ c_calls = <<>> /\ c_cs = <<>>
    /\ c_res = <<>> /\ c_flag = <<>> /\ c_result = <<>> /\ c_result0 = <<>>
    /\ c_errors = <<>> /\ c_heap = <<>>

\* A set_parameters call about to run on some descriptor list, with the
\* slots seeded by the caller, and some PARAMETER list.
InitSetParameters ==
    /\ sp_pc = "call"
    /\ sp_srid = 4326
    /\ sp_parameters \in SeqsUpTo(SpParameters, MaxParameters)
    /\ \E n \in 0..MaxDescriptors :
          /\ sp_params \in [1..n -> SpCodes]
          /\ sp_slots \in [1..n -> SpSeeds]
    /\ sp_slots0 = sp_slots
    /\ sp_ret = FALSE /\ sp_errors = <<>> /\ sp_hits = {}
    /\ np_idle /\ pw_idle /\ cc_idle

\* The call of set_parameters, from entry to return.
SetParametersCall ==
    /\ sp_pc = "call"
    /\ LET r == set_parameters(sp_srid, sp_parameters, sp_params, sp_slots)
       IN  /\ sp_slots' = r.slots
           /\ sp_ret' = r.ret
           /\ sp_errors' = r.errors
           /\ sp_hits' = r.hits
    /\ sp_pc' = "done"
    /\ UNCHANGED <<sp_srid, sp_parameters, sp_params, sp_slots0>>
    /\ UNCHANGED <<np_vars, pw_vars, cc_vars>>

NextSetParameters == SetParametersCall

SpecSetParameters == InitSetParameters /\ [][NextSetParameters]_vars

\* A new_projection call about to run on some method code.
InitNewProjection ==
    /\ np_pc = "call"
    /\ np_code \in (-MaxNegCode)..MaxCode
    /\ np_result = "none"
    /\ sp_idle /\ pw_idle /\ cc_idle

\* The call of new_projection.
NewProjectionCall ==
    /\ np_pc = "call"
    /\ np_result' = new_projection(np_code)
    /\ np_pc' = "done"
    /\ UNCHANGED <<np_code, sp_vars, pw_vars, cc_vars>>

NextNewProjection == NewProjectionCall

SpecNewProjection == InitNewProjection /\ [][NextNewProjection]_vars

\* A parse_wkt call about to run: begin is null ("null"), begin = end
\* ("empty") or the span holds text; *result holds what the caller left
\* there.
Init ==
    /\ pc = "start"
    /\ srid \in SRIDs
    /\ span \in {"null", "empty", "text"}
    /\ result0 \in {NULLPTR, STALE}
    /\ result = result0
    /\ cs = NoTree /\ res = FALSE /\ heap = {} /\ obj = NoObject
    /\ allocs = 0 /\ errors = <<>> /\ branches = {} /\ grammar_calls = 0
    /\ sp_idle /\ np_idle /\ cc_idle

\* CheckSpan that tests begin == nullptr only.
CheckSpan_null_only ==
    /\ pc = "start"
    /\ IF span = "null"
       THEN /\ errors' = Append(errors, parse_error(srid, "parse_wkt"))
            /\ res' = TRUE
            /\ pc' = "failed"
       ELSE /\ pc' = "grammar"
            /\ UNCHANGED <<errors, res>>
    /\ UNCHANGED <<srid, span, result, result0, cs, heap, obj, allocs,
                   branches, grammar_calls>>
    /\ UNCHANGED <<sp_vars, np_vars, cc_vars>>

\* CheckSpan without the return after my_error: the diagnostic is reported
\* and the call goes on to the grammar.
CheckSpan_falls_through ==
    /\ pc = "start"
    /\ IF span \in {"null", "empty"}
       THEN /\ errors' = Append(errors, parse_error(srid, "parse_wkt"))
            /\ res' = TRUE
            /\ pc' = "grammar"
       ELSE /\ pc' = "grammar"
            /\ UNCHANGED <<errors, res>>
    /\ UNCHANGED <<srid, span, result, result0, cs, heap, obj, allocs,
                   branches, grammar_calls>>
    /\ UNCHANGED <<sp_vars, np_vars, cc_vars>>

\* parse_wkt, the check of the span.
CheckSpan ==
    /\ pc = "start"
    /\ IF span \in {"null", "empty"}
       THEN /\ errors' = Append(errors, parse_error(srid, "parse_wkt"))
            /\ res' = TRUE
            /\ pc' = "failed"
       ELSE /\ pc' = "grammar"
            /\ UNCHANGED <<errors, res>>
    /\ UNCHANGED <<srid, span, result, result0, cs, heap, obj, allocs,
                   branches, grammar_calls>>
    /\ UNCHANGED <<sp_vars, np_vars, cc_vars>>

\* GrammarFails where parse_wkt reports ER_SRS_PARSE_ERROR itself as well.
GrammarFails_reports_again ==
    /\ pc = "grammar"
    /\ grammar_calls' = grammar_calls + 1
    /\ res' = TRUE
    /\ errors' = errors \o <<parse_error(srid, "wkt_parser"),
                              parse_error(srid, "parse_wkt")>>
    /\ pc' = "failed"
    /\ UNCHANGED <<srid, span, result, result0, cs, heap, obj, allocs,
                   branches>>
    /\ UNCHANGED <<sp_vars, np_vars, cc_vars>>

\* GrammarFails without the if (res) return res: the failure is recorded
\* and parse_wkt goes on to dispatch on the tree left in cs.
GrammarFails_dispatches ==
    /\ pc = "grammar"
    /\ grammar_calls' = grammar_calls + 1
    /\ res' = TRUE
    /\ errors' = Append(errors, parse_error(srid, "wkt_parser"))
    /\ \E tree \in GeographicTrees :
          /\ cs' = tree
          /\ pc' = "dispatch_geographic"
    /\ UNCHANGED <<srid, span, result, result0, heap, obj, allocs,
                   branches>>
    /\ UNCHANGED <<sp_vars, np_vars, cc_vars>>

\* parse_wkt, res = wp::parse_wkt(srid, begin, end, &cs): the grammar
\* either fails, having reported its diagnostic, or fills cs with a tree.
GrammarFails ==
    /\ pc = "grammar"
    /\ grammar_calls' = grammar_calls + 1
    /\ res' = TRUE
    /\ errors' = Append(errors, parse_error(srid, "wkt_parser"))
    /\ pc' = "failed"
    /\ UNCHANGED <<srid, span, result, result0, cs, heap, obj, allocs,
                   branches>>
    /\ UNCHANGED <<sp_vars, np_vars, cc_vars>>

GrammarSucceeds ==
    /\ pc = "grammar"
    /\ grammar_calls' = grammar_calls + 1
    /\ res' = FALSE
    /\ cs' \in GeographicTrees \cup ProjectedTrees
    /\ pc' = IF cs'.tag = "Projected_cs" THEN "dispatch_projected"
             ELSE "dispatch_geographic"
    /\ UNCHANGED <<srid, span, result, result0, heap, obj, allocs, errors,
                   branches>>
    /\ UNCHANGED <<sp_vars, np_vars, cc_vars>>

\* FinishBranch without the delete: on failure tmp is set to nullptr and
\* the object stays allocated.
FinishBranch_no_delete(r, branch) ==
    \E tmp \in new_pointer(CallAddresses, heap) :
        /\ allocs' = allocs + 1
        /\ res' = r.ret
        /\ errors' = errors \o r.errors
        /\ heap' = heap \cup {tmp}
        /\ obj' = r.new_object
        /\ result' = IF r.ret /\ tmp # NULLPTR THEN NULLPTR ELSE tmp
        /\ branches' = branches \cup {branch}
        /\ pc' = IF r.ret THEN "failed" ELSE "built"

\* What either branch of parse_wkt does with the outcome r of its create
\* function: the object was allocated, at an address operator new chose
\* (the one the slot holds among them, when nothing lives there); on
\* failure it is deleted and tmp set to nullptr; *result = tmp; the
\* branches are followed by return res.
FinishBranch(r, branch) ==
    \E tmp \in new_pointer(CallAddresses, heap) :
        /\ allocs' = allocs + 1
        /\ res' = r.ret
        /\ errors' = errors \o r.errors
        /\ IF r.ret /\ tmp # NULLPTR
           THEN /\ heap' = heap
                /\ obj' = NoObject
                /\ result' = NULLPTR
           ELSE /\ heap' = heap \cup {tmp}
                /\ obj' = r.new_object
                /\ result' = tmp
        /\ branches' = branches \cup {branch}
        /\ pc' = IF r.ret THEN "failed" ELSE "built"

\* The outcome of create_projected_srs(srid, proj) for every SRID and
\* Projected_cs tree of the model, held as an enumerated function (the
\* merge with the empty function enumerates it).
create_projected_outcomes ==
    [id \in SRIDs, proj \in ProjectedTrees |->
        create_projected_srs(id, proj)] @@ <<>>

\* parse_wkt, the branch taken when cs holds a Projected_cs.
DispatchProjected ==
    /\ pc = "dispatch_projected"
    /\ FinishBranch(create_projected_outcomes[srid, cs], "projected")
    /\ UNCHANGED <<srid, span, result0, cs, grammar_calls>>
    /\ UNCHANGED <<sp_vars, np_vars, cc_vars>>

\* parse_wkt, the branch taken when cs holds a Geographic_cs.
DispatchGeographic ==
    /\ pc = "dispatch_geographic"
    /\ FinishBranch(create_geographic_srs(srid, cs), "geographic")
    /\ UNCHANGED <<srid, span, result0, cs, grammar_calls>>
    /\ UNCHANGED <<sp_vars, np_vars, cc_vars>>

Next ==
    \/ CheckSpan
    \/ GrammarFails
    \/ GrammarSucceeds
    \/ DispatchProjected
    \/ DispatchGeographic

Spec == Init /\ [][Next]_vars

\* parse_wkt is straight-line code: a call that has started keeps running
\* until it returns.
FairSpec == Spec /\ WF_vars(Next)

---------------------------------------------------------------------------
(* Several callers of parse_wkt, each on a thread of its own, their steps
   interleaved.  c_cs and c_res are the locals cs and res of the
   activations, c_result the callers' output slots, c_errors the
   diagnostics of each caller's thread, c_heap the objects on the free
   store. *)

MaxCalls == 2

Callers == {1, 2}

\* The SRID each caller passes.
CallerSrid(c) == IF c = 1 THEN 4326 ELSE 32632

\* What the grammar makes of the texts the callers pass: NoTree for a text
\* it rejects, else one of these trees.
CallerTrees ==
    {g \in GeographicTrees : g.datum.towgs84.valid /\ g.axes.valid}
    \cup
    {p \in ProjectedTrees :
        /\ p.geographic_cs.datum.towgs84.valid /\ p.geographic_cs.axes.valid
        /\ p.axes.valid
        /\ \/ /\ p.projection.authority = [name |-> s_EPSG, code |-> s_9807]
              /\ p.parameters \in {TransverseMercatorParameters,
                                    Drop(TransverseMercatorParameters, 5)}
           \/ /\ p.projection.authority = [name |-> <<>>, code |-> <<>>]
              /\ p.parameters = TransverseMercatorParameters}

\* The arguments of one call, with what the grammar makes of the text.
CallerInputs(c) ==
    {[srid |-> CallerSrid(c), span |-> "null", grammar |-> NoTree]}
    \cup {[srid |-> CallerSrid(c), span |-> "text", grammar |-> g] :
             g \in {NoTree} \cup CallerTrees}

\* The activation record that holds the locals of caller c's call.
frame_static(c) == 1

\* The locals of parse_wkt have automatic storage: one activation record
\* per call.
frame(c) == c

\* The addresses the objects of the callers can have: as many as the
\* callers have pointers to compare (c_result and c_result0 of each).  A
\* caller about to allocate holds one pointer in both, so the callers hold
\* at most three addresses then and operator new can return any of them
\* that is free as well as an address none of them holds.
CallerAddresses ==
    FIRST_NEW..(FIRST_NEW + Cardinality(Callers) + Cardinality(Callers) - 1)

InitConcurrent ==
    /\ c_pc = [c \in Callers |-> "start"]
    /\ c_in \in [Callers -> UNION {CallerInputs(c) : c \in Callers}]
    /\ \A c \in Callers : c_in[c] \in CallerInputs(c)
    /\ c_calls = [c \in Callers |-> 1]
    /\ c_cs = [f \in Callers |-> NoTree]
    /\ c_res = [f \in Callers |-> FALSE]
    /\ c_flag = [c \in Callers |-> FALSE]
    /\ c_result = [c \in Callers |-> NULLPTR]
    /\ c_result0 = c_result
    /\ c_errors = [c \in Callers |-> <<>>]
    /\ c_heap = <<>>
    /\ sp_idle /\ np_idle /\ pw_idle

\* parse_wkt of caller c, the check of the span; past it the locals cs and
\* res come into being.
CallCheckSpan(c) ==
    /\ c_pc[c] = "start"
    /\ IF c_in[c].span \in {"null", "empty"}
       THEN /\ c_errors' = [c_errors EXCEPT
                              ![c] = Append(@, parse_error(c_in[c].srid,
                                                           "parse_wkt"))]
            /\ c_flag' = [c_flag EXCEPT ![c] = TRUE]
            /\ c_pc' = [c_pc EXCEPT ![c] = "failed"]
            /\ UNCHANGED c_cs
       ELSE /\ c_cs' = [c_cs EXCEPT ![frame(c)] = NoTree]
            /\ c_pc' = [c_pc EXCEPT ![c] = "grammar"]
            /\ UNCHANGED <<c_errors, c_flag>>
    /\ UNCHANGED <<c_in, c_calls, c_res, c_result, c_result0, c_heap>>
    /\ UNCHANGED <<sp_vars, np_vars, pw_vars>>

\* parse_wkt of caller c, res = wp::parse_wkt(srid, begin, end, &cs).
CallGrammar(c) ==
    /\ c_pc[c] = "grammar"
    /\ IF c_in[c].grammar = NoTree
       THEN /\ c_res' = [c_res EXCEPT ![frame(c)] = TRUE]
            /\ c_errors' = [c_errors EXCEPT
                              ![c] = Append(@, parse_error(c_in[c].srid,
                                                           "wkt_parser"))]
            /\ UNCHANGED c_cs
       ELSE /\ c_res' = [c_res EXCEPT ![frame(c)] = FALSE]
            /\ c_cs' = [c_cs EXCEPT ![frame(c)] = c_in[c].grammar]
            /\ UNCHANGED c_errors
    /\ c_pc' = [c_pc EXCEPT ![c] = "dispatch"]
    /\ UNCHANGED <<c_in, c_calls, c_flag, c_result, c_result0, c_heap>>
    /\ UNCHANGED <<sp_vars, np_vars, pw_vars>>

\* parse_wkt of caller c, if (!res) { ... }: the branch for the alternative
\* cs holds creates the object, deletes it on failure and writes *result.
CallDispatch(c) ==
    /\ c_pc[c] = "dispatch"
    /\ IF ~c_res[frame(c)] /\ c_cs[frame(c)] # NoTree
       THEN LET tree == c_cs[frame(c)]
                r == IF tree.tag = "Projected_cs"
                     THEN create_projected_outcomes[c_in[c].srid, tree]
                     ELSE create_geographic_srs(c_in[c].srid, tree)
            IN  /\ c_res' = [c_res EXCEPT ![frame(c)] = r.ret]
                /\ c_errors' = [c_errors EXCEPT ![c] = @ \o r.errors]
                /\ \E tmp \in new_pointer(CallerAddresses, DOMAIN c_heap) :
                      IF r.ret /\ tmp # NULLPTR
                      THEN /\ c_heap' = c_heap
                           /\ c_result' = [c_result EXCEPT ![c] = NULLPTR]
                      ELSE /\ c_heap' = [p \in DOMAIN c_heap \cup {tmp} |->
                                           IF p = tmp THEN r.new_object
                                           ELSE c_heap[p]]
                           /\ c_result' = [c_result EXCEPT ![c] = tmp]
       ELSE UNCHANGED <<c_res, c_errors, c_heap, c_result>>
    /\ c_pc' = [c_pc EXCEPT ![c] = "return"]
    /\ UNCHANGED <<c_in, c_calls, c_cs, c_flag, c_result0>>
    /\ UNCHANGED <<sp_vars, np_vars, pw_vars>>

\* parse_wkt of caller c, return res.
CallReturn(c) ==
    /\ c_pc[c] = "return"
    /\ c_flag' = [c_flag EXCEPT ![c] = c_res[frame(c)]]
    /\ c_pc' = [c_pc EXCEPT
                  ![c] = IF c_res[frame(c)] THEN "failed" ELSE "built"]
    /\ UNCHANGED <<c_in, c_calls, c_cs, c_res, c_result, c_result0,
                   c_errors, c_heap>>
    /\ UNCHANGED <<sp_vars, np_vars, pw_vars>>

\* Caller c, its call over, disposes of the object if it was given one,
\* leaves in its slot what the slot holds and calls parse_wkt again on
\* another text.
CallAgain(c) ==
    /\ c_pc[c] \in {"built", "failed"}
    /\ c_calls[c] < MaxCalls
    /\ c_calls' = [c_calls EXCEPT ![c] = @ + 1]
    /\ \E in \in CallerInputs(c) : c_in' = [c_in EXCEPT ![c] = in]
    /\ c_heap' = IF c_pc[c] = "built"
                 THEN [p \in DOMAIN c_heap \ {c_result[c]} |-> c_heap[p]]
                 ELSE c_heap
    /\ c_result0' = [c_result0 EXCEPT ![c] = c_result[c]]
    /\ c_errors' = [c_errors EXCEPT ![c] = <<>>]
    /\ c_flag' = [c_flag EXCEPT ![c] = FALSE]
    /\ c_pc' = [c_pc EXCEPT ![c] = "start"]
    /\ UNCHANGED <<c_cs, c_res, c_result>>
    /\ UNCHANGED <<sp_vars, np_vars, pw_vars>>

NextConcurrent ==
    \E c \in Callers :
       \/ CallCheckSpan(c)
       \/ CallGrammar(c)
       \/ CallDispatch(c)
       \/ CallReturn(c)
       \/ CallAgain(c)

SpecConcurrent == InitConcurrent /\ [][NextConcurrent]_vars

---------------------------------------------------------------------------
(* Properties of set_parameters, checked under SpecSetParameters. *)

\* s and t are equal up to letter case.
SameNoCase(s, t) ==
    /\ Len(s) = Len(t)
    /\ \A k \in 1..Len(s) : my_toupper(s[k]) = my_toupper(t[k])

\* The codes for which param_aliases declares an alias.
DeclaresAlias(code) == code \in {8823, 8824}

\* prm carries an EPSG authority clause.
HasEpsgAuthority(prm) == SameNoCase(prm.authority.name, s_EPSG)

\* prm is matched to the descriptor by its EPSG authority code.
MatchedByCode(prm, code) ==
    HasEpsgAuthority(prm) /\ SameNoCase(prm.authority.code, to_string(code))

\* prm, without EPSG authority, is matched to the descriptor by its name:
\* the canonical name, or the entry of the alias table, which is the empty
\* string for a code that declares no alias.
MatchedByName(prm, code) ==
    /\ ~HasEpsgAuthority(prm)
    /\ \/ SameNoCase(prm.name, param_names(code))
       \/ SameNoCase(prm.name, IF DeclaresAlias(code)
                               THEN param_aliases(code) ELSE <<>>)

Matched(prm, code) == MatchedByCode(prm, code) \/ MatchedByName(prm, code)

\* The matching rules as the specification words them: code, else
\* canonical name, else a declared alias, whatever the authority.
MatchedBySpecRules(prm, code) ==
    \/ MatchedByCode(prm, code)
    \/ SameNoCase(prm.name, param_names(code))
    \/ (DeclaresAlias(code) /\ SameNoCase(prm.name, param_aliases(code)))

\* The positions of the parameters matched to descriptor j.
Matching(j) ==
    {i \in 1..Len(sp_parameters) : Matched(sp_parameters[i], sp_params[j])}

Last(S) == CHOOSE i \in S : \A k \in S : k <= i

\* Descriptor j is mandatory: its slot was seeded with NAN.
Mandatory(j) == isnan(sp_slots0[j])

\* What slot j must hold once the call is over.
Expected(j) ==
    IF Matching(j) = {} THEN sp_slots0[j]
    ELSE sp_parameters[Last(Matching(j))].value

\* C1: every slot matched by at least one parameter holds, after the
\* call, the value of the last matching parameter in list order, whether
\* the matches were made by EPSG code or by name.
C1_LastMatchWins ==
    sp_pc = "done" =>
        \A j \in 1..Len(sp_params) :
            Matching(j) # {} =>
                sp_slots[j] = sp_parameters[Last(Matching(j))].value

\* C1 witness: a slot matched first by EPSG code and later by name, with
\* different values, holds the later value.
C1_Witness ==
    /\ sp_pc = "done"
    /\ \E j \in 1..Len(sp_params) : \E i1, i2 \in Matching(j) :
          /\ i1 < i2
          /\ MatchedByCode(sp_parameters[i1], sp_params[j])
          /\ MatchedByName(sp_parameters[i2], sp_params[j])
          /\ sp_parameters[i1].value # sp_parameters[i2].value
          /\ ~isnan(sp_parameters[i1].value)
          /\ ~isnan(sp_parameters[i2].value)
          /\ sp_slots[j] = sp_parameters[i2].value

\* C2 as claimed: when every mandatory descriptor has a parameter that
\* matches it under the rules code, else name, else alias, the call
\* returns false and reports nothing (stated for PARAMETER lists whose
\* values are all numbers).
C2_AsClaimed ==
    (/\ sp_pc = "done"
     /\ \A i \in 1..Len(sp_parameters) : ~isnan(sp_parameters[i].value)
     /\ \A j \in 1..Len(sp_params) :
           Mandatory(j) =>
              \E i \in 1..Len(sp_parameters) :
                 MatchedBySpecRules(sp_parameters[i], sp_params[j]))
    => (sp_ret = FALSE /\ sp_errors = <<>>)

\* C2 amended: when every mandatory descriptor has a parameter that the
\* code matches to it (an EPSG-authority parameter by its code only, any
\* other parameter by canonical name or alias-table entry) and no
\* descriptor's last matching parameter carries NAN, the call returns
\* false and reports nothing.
C2_SuccessWhenAllMatched ==
    (/\ sp_pc = "done"
     /\ \A j \in 1..Len(sp_params) :
           /\ Mandatory(j) => Matching(j) # {}
           /\ ~isnan(Expected(j)))
    => (sp_ret = FALSE /\ sp_errors = <<>>)

\* C2 witness: a successful call with two mandatory descriptors, one
\* matched by alias.
C2_Witness ==
    /\ sp_pc = "done"
    /\ sp_ret = FALSE
    /\ Len(sp_params) = 2
    /\ \A j \in 1..Len(sp_params) : Mandatory(j) /\ Matching(j) # {}
    /\ \E j \in 1..Len(sp_params) : \E i \in Matching(j) :
          SameNoCase(sp_parameters[i].name, s_standard_parallel1)

\* The first descriptor, in list order, whose slot ends as NAN: unmatched
\* and seeded NAN, or last matched by a parameter that carries NAN.
Unset(j) == isnan(Expected(j))
FirstUnset == CHOOSE j \in 1..Len(sp_params) :
                 Unset(j) /\ \A k \in 1..(j - 1) : ~Unset(k)

MissingDiagnostic(j) ==
    [error |-> "ER_SRS_PROJ_PARAMETER_MISSING", srid |-> sp_srid,
     name |-> param_names(sp_params[j]), epsg_code |-> sp_params[j],
     by |-> "set_parameters"]

Reported(d) == \E k \in 1..Len(sp_errors) : sp_errors[k] = d

\* C3 as claimed: for every mandatory descriptor without a matching
\* parameter the call returns true and a diagnostic with the SRID, that
\* descriptor's name and code is reported, and the other slots hold what
\* their matching parameters assigned.
C3_AsClaimed ==
    sp_pc = "done" =>
        \A j \in 1..Len(sp_params) :
            (Mandatory(j) /\ Matching(j) = {}) =>
                /\ sp_ret = TRUE
                /\ Reported(MissingDiagnostic(j))
                /\ \A k \in 1..Len(sp_params) : sp_slots[k] = Expected(k)

\* C3 amended: when some mandatory descriptor has no matching parameter
\* the call returns true and reports exactly one diagnostic, which carries
\* the SRID and the name and code of the first descriptor in list order
\* whose slot is NAN after matching; every slot holds what its matching
\* parameters assigned.
C3_FirstMissingReported ==
    (/\ sp_pc = "done"
     /\ \E j \in 1..Len(sp_params) : Mandatory(j) /\ Matching(j) = {})
    => /\ sp_ret = TRUE
       /\ sp_errors = <<MissingDiagnostic(FirstUnset)>>
       /\ \A k \in 1..Len(sp_params) : sp_slots[k] = Expected(k)

\* C3 witness: two mandatory descriptors with different codes, neither
\* matched, and only the first is reported.
C3_Witness ==
    /\ sp_pc = "done"
    /\ Len(sp_params) = 2
    /\ sp_params[1] # sp_params[2]
    /\ \A j \in 1..2 : Mandatory(j) /\ Matching(j) = {}
    /\ sp_parameters # <<>>
    /\ sp_ret = TRUE
    /\ sp_errors = <<MissingDiagnostic(1)>>

AllPairs == (1..Len(sp_parameters)) \X (1..Len(sp_params))

\* C4 as claimed: a (parameter, descriptor) pair is assigned exactly when
\* the first applicable of the rules code, canonical name, alias matches;
\* a parameter with an EPSG code of another descriptor is assigned by name.
C4_AsClaimed ==
    sp_pc = "done" =>
        sp_hits = {p \in AllPairs :
                     MatchedBySpecRules(sp_parameters[p[1]], sp_params[p[2]])}

\* C4 amended: a pair is assigned exactly when either the parameter's
\* authority name is EPSG and its authority code is the decimal form of
\* the descriptor's code, or the authority name is not EPSG and the
\* parameter's name equals the canonical name or the alias-table entry of
\* the code (the empty string where no alias is declared); with an EPSG
\* authority the name is not consulted.
C4_AssignedExactlyWhenMatched ==
    sp_pc = "done" =>
        sp_hits = {p \in AllPairs :
                     Matched(sp_parameters[p[1]], sp_params[p[2]])}

\* C4 witness: a parameter named as descriptor 8801 with EPSG code 8823 is
\* assigned to 8823 and not to 8801.
C4_Witness ==
    /\ sp_pc = "done"
    /\ \E i \in 1..Len(sp_parameters) : \E j1, j2 \in 1..Len(sp_params) :
          /\ HasEpsgAuthority(sp_parameters[i])
          /\ SameNoCase(sp_parameters[i].name, param_names(sp_params[j1]))
          /\ <<i, j1>> \notin sp_hits
          /\ <<i, j2>> \in sp_hits

---------------------------------------------------------------------------
(* Properties of parse_wkt, checked under Spec. *)

Returned == pc \in {"built", "failed"}

EmptySpan == span \in {"null", "empty"}

\* The grammar was called and reported failure.
GrammarFailed == pc = "failed" /\ grammar_calls = 1 /\ cs = NoTree

ReportedBy(who) == {k \in 1..Len(errors) : errors[k].by = who}

\* C5 as claimed: with a null or empty span parse_wkt returns failure and
\* the output slot is null after the call, whatever it held before.
C5_AsClaimed ==
    (EmptySpan /\ pc # "start") =>
        (pc = "failed" /\ res = TRUE /\ result = NULLPTR)

\* C5 amended: with a null or empty span parse_wkt returns failure without
\* writing the output slot, which holds after the call what it held
\* before (null when the caller left null there); nothing is allocated.
C5_EmptySpanFailsSlotUntouched ==
    (EmptySpan /\ pc # "start") =>
        /\ pc = "failed" /\ res = TRUE
        /\ result = result0
        /\ allocs = 0 /\ heap = {}

\* C5 witness: a call with an empty span and a slot that held a pointer has
\* returned, and the slot still holds that pointer.
C5_Witness ==
    /\ pc = "failed" /\ span = "empty"
    /\ result0 = STALE /\ result = STALE

\* The tree is a Transverse Mercator (EPSG:9807) definition none of whose
\* PARAMETER clauses is matched to false_northing (8807).
LacksFalseNorthing ==
    /\ cs.tag = "Projected_cs"
    /\ SameNoCase(cs.projection.authority.name, s_EPSG)
    /\ cs.projection.authority.code = s_9807
    /\ \A i \in 1..Len(cs.parameters) : ~Matched(cs.parameters[i], 8807)

\* C6: when construction fails after the object was allocated, as it does
\* for an EPSG:9807 tree without false_northing, parse_wkt has deleted the
\* object, stored null in the output slot and returned failure: no object
\* of the call is live or reachable.
C6_DeletedOnFailure ==
    /\ (pc = "failed" /\ allocs > 0) =>
          /\ res = TRUE /\ result = NULLPTR
          /\ heap = {} /\ obj = NoObject
    /\ (Returned /\ LacksFalseNorthing) => (pc = "failed" /\ allocs = 1)

\* C6 witness: the call on an EPSG:9807 tree that lacks only false_northing
\* has failed with the diagnostic for 8807, after one allocation.
C6_Witness ==
    /\ pc = "failed" /\ LacksFalseNorthing /\ allocs = 1
    /\ result0 = STALE /\ result = NULLPTR
    /\ errors = <<[error |-> "ER_SRS_PROJ_PARAMETER_MISSING", srid |-> srid,
                   name |-> s_false_northing, epsg_code |-> 8807,
                   by |-> "set_parameters"]>>

\* C7 as claimed: when the grammar reports failure parse_wkt returns
\* failure, allocates nothing, reports nothing itself, and the output slot
\* is null after the call.
C7_AsClaimed ==
    GrammarFailed =>
        /\ res = TRUE /\ allocs = 0
        /\ ReportedBy("parse_wkt") = {}
        /\ result = NULLPTR

\* C7 amended: when the grammar reports failure parse_wkt returns failure,
\* allocates nothing, reports nothing itself, and does not write the
\* output slot, which holds what it held before the call (null when the
\* caller left null there).
C7_GrammarFailureSlotUntouched ==
    /\ GrammarFailed =>
          /\ res = TRUE /\ allocs = 0 /\ heap = {}
          /\ ReportedBy("parse_wkt") = {}
          /\ ReportedBy("set_parameters") = {}
          /\ result = result0
    /\ (Returned /\ grammar_calls = 1 /\ cs = NoTree) => pc = "failed"

\* C7 witness: the grammar has failed in a call whose slot held a pointer.
C7_Witness ==
    /\ GrammarFailed /\ result0 = STALE /\ result = STALE
    /\ Len(errors) = 1

\* The class dispatch selects for the tree in cs.
DispatchedKind ==
    IF cs.tag = "Geographic_cs" THEN "Geographic_srs"
    ELSE new_projection(projection_epsg_code(cs))

\* C8: whenever parse_wkt returns success the output slot holds the one
\* live object of the call, allocated by it, of the class dispatch
\* selects (Geographic_srs for a Geographic_cs tree, the class
\* new_projection gives for the resolved method code for a Projected_cs
\* tree), and exactly one of the two branches has run.
C8_OneObjectOnSuccess ==
    /\ (Returned /\ res = FALSE) => pc = "built"
    /\ pc = "built" =>
          /\ res = FALSE
          /\ result \in CallAddresses /\ result # NULLPTR
          /\ heap = {result} /\ allocs = 1
          /\ obj # NoObject /\ obj.kind = DispatchedKind
          /\ branches = {IF cs.tag = "Geographic_cs" THEN "geographic"
                         ELSE "projected"}
    /\ Cardinality(branches) <= 1

\* C8 witness: a Transverse Mercator object has been built from a tree with
\* projection authority EPSG:9807.
C8_Witness ==
    /\ pc = "built" /\ cs.tag = "Projected_cs"
    /\ cs.projection.authority.code = s_9807
    /\ obj.kind = "Transverse_mercator_srs"
    /\ result = FIRST_NEW

\* s is not a string of decimal digits.
NonNumeric(s) == s = <<>> \/ \E k \in 1..Len(s) : ~isdigit(s[k])

\* s does not start, after optional white space and an optional sign, with
\* a decimal digit.
NoLeadingInteger(s) ==
    LET first == IF \E k \in 1..Len(s) : ~isspace(s[k])
                 THEN CHOOSE k \in 1..Len(s) :
                         ~isspace(s[k]) /\ \A m \in 1..(k - 1) : isspace(s[m])
                 ELSE Len(s) + 1
        digit == IF first <= Len(s) /\ s[first] \in {"+", "-"}
                 THEN first + 1 ELSE first
    IN  digit > Len(s) \/ ~isdigit(s[digit])

\* The object holds the geographic fields, the linear unit and, where the
\* AXIS clauses are valid, the axis pairs of the Projected_cs tree in cs.
BasePopulated ==
    LET g == cs.geographic_cs
        o == obj.geographic_srs
    IN  /\ o.semi_major_axis = g.datum.spheroid.semi_major_axis
        /\ o.inverse_flattening = g.datum.spheroid.inverse_flattening
        /\ o.prime_meridian = g.prime_meridian.longitude
        /\ o.angular_unit = g.angular_unit.conversion_factor
        /\ g.datum.towgs84.valid =>
              o.towgs84 = <<g.datum.towgs84.dx, g.datum.towgs84.dy,
                            g.datum.towgs84.dz, g.datum.towgs84.ex,
                            g.datum.towgs84.ey, g.datum.towgs84.ez,
                            g.datum.towgs84.ppm>>
        /\ g.axes.valid => o.axes = <<g.axes.x.direction, g.axes.y.direction>>
        /\ obj.linear_unit = cs.linear_unit.conversion_factor
        /\ cs.axes.valid =>
              obj.axes = <<cs.axes.x.direction, cs.axes.y.direction>>

\* C10 as claimed: a Projected_cs tree whose projection authority name is
\* not EPSG, or whose authority code is not numeric, is built as an
\* Unknown_projected_srs; building succeeds whatever the PARAMETER list,
\* and the base fields are populated from the tree.
C10_AsClaimed ==
    (/\ Returned /\ cs.tag = "Projected_cs"
     /\ \/ ~SameNoCase(cs.projection.authority.name, s_EPSG)
        \/ NonNumeric(cs.projection.authority.code))
    => /\ pc = "built"
       /\ obj.kind = "Unknown_projected_srs"
       /\ BasePopulated

\* C10 amended: a Projected_cs tree whose projection authority name is not
\* EPSG, or whose authority code does not start (after optional white
\* space and sign) with a decimal digit, is built as an
\* Unknown_projected_srs; building succeeds whatever the PARAMETER list,
\* no parameter is read, and the base fields are populated from the tree.
\* A code that starts with digits is read as that number, whatever follows.
C10_UnknownWhenNoEpsgCode ==
    (/\ Returned /\ cs.tag = "Projected_cs"
     /\ \/ ~SameNoCase(cs.projection.authority.name, s_EPSG)
        \/ NoLeadingInteger(cs.projection.authority.code))
    => /\ pc = "built" /\ res = FALSE /\ errors = <<>>
       /\ obj.kind = "Unknown_projected_srs"
       /\ obj.slots = <<>>
       /\ BasePopulated

\* C10 witness: an Unknown_projected_srs built from a tree with authority
\* ESRI:9807, valid axes and an empty PARAMETER list.
C10_Witness ==
    /\ pc = "built" /\ cs.tag = "Projected_cs"
    /\ cs.projection.authority = [name |-> s_ESRI, code |-> s_9807]
    /\ cs.parameters = <<>> /\ cs.axes.valid
    /\ obj.kind = "Unknown_projected_srs"
    /\ obj.axes = <<"EAST", "NORTH">>
    /\ obj.linear_unit = 15

---------------------------------------------------------------------------
(* Properties of new_projection, checked under SpecNewProjection. *)

\* The catalogued EPSG method codes.
Catalogued ==
    {1024} \cup (1027..1029) \cup (1041..1043) \cup {1051, 1052}
    \cup (9801..9813) \cup (9815..9820) \cup {9822, 9824, 9826}
    \cup (9828..9835)

\* C9: new_projection returns, for every catalogued method code, a class
\* other than Unknown_projected_srs that no other catalogued code gives,
\* and Unknown_projected_srs for 0 and every other integer; it always
\* returns an object.
C9_NewProjectionTotal ==
    np_pc = "done" =>
        /\ np_result # "none"
        /\ np_code \in Catalogued =>
              /\ np_result # "Unknown_projected_srs"
              /\ \A c \in Catalogued \ {np_code} :
                    new_projection(c) # np_result
        /\ np_code \notin Catalogued => np_result = "Unknown_projected_srs"

\* C9 witness: new_projection(9807) has returned a Transverse_mercator_srs.
C9_Witness ==
    /\ np_pc = "done" /\ np_code = 9807
    /\ np_result = "Transverse_mercator_srs"

---------------------------------------------------------------------------
(* Letter case, checked under Spec. *)

\* s with every letter in upper case ("upper") or in lower case ("lower").
Recase(s, m) ==
    [k \in 1..Len(s) |->
        IF m = "upper" THEN my_toupper(s[k])
        ELSE IF \E n \in 1..Len(UpperCase) : UpperCase[n] = s[k]
             THEN LowerCase[CHOOSE n \in 1..Len(UpperCase) :
                               UpperCase[n] = s[k]]
             ELSE s[k]]

RecaseParameter(prm, m) ==
    [prm EXCEPT !.name = Recase(@, m),
                !.authority.name = Recase(@, m)]

\* The Projected_cs tree with the letter case of the projection's authority
\* name and of every PARAMETER name and authority name changed.
RecaseTree(tree, m) ==
    [tree EXCEPT
       !.projection.authority.name = Recase(@, m),
       !.parameters = [i \in 1..Len(tree.parameters) |->
                          RecaseParameter(tree.parameters[i], m)]]

\* A PARAMETER clause matches a descriptor exactly when its recased form
\* does.
RecaseKeepsMatch ==
    \A prm \in SpParameters \cup ExtraParameters :
       \A code \in SpCodes \cup {8807} : \A m \in {"upper", "lower"} :
          parameter_matches(RecaseParameter(prm, m), code)
             = Matched(prm, code)

\* C11: matching is case-insensitive: the failure flag, the class chosen,
\* every slot and the diagnostics of a call on a Projected_cs tree are what
\* the call gives on the same tree with the authority names and the
\* PARAMETER names in upper case or in lower case, and a PARAMETER clause
\* matches a descriptor exactly when its recased form does.
C11_CaseInsensitive ==
    /\ (Returned /\ cs.tag = "Projected_cs") =>
          \A m \in {"upper", "lower"} :
             \A r \in {create_projected_srs(srid, RecaseTree(cs, m))} :
                 /\ r.ret = res
                 /\ r.errors = errors
                 /\ r.new_object.kind = DispatchedKind
                 /\ pc = "built" => r.new_object = obj
    /\ RecaseKeepsMatch

\* C11 witness: a Transverse Mercator object built from a tree whose
\* projection authority is written epsg and one of whose PARAMETER clauses
\* is matched by its EPSG code.
C11_Witness ==
    /\ pc = "built" /\ cs.tag = "Projected_cs"
    /\ cs.projection.authority.name = s_epsg
    /\ obj.kind = "Transverse_mercator_srs"
    /\ \E i \in 1..Len(cs.parameters) :
          MatchedByCode(cs.parameters[i], 8807)
    /\ \E i \in 1..Len(cs.parameters) :
          MatchedByName(cs.parameters[i], 8801)

---------------------------------------------------------------------------
(* Properties of the objects parse_wkt returns, checked under Spec. *)

\* The tree carries projection authority EPSG:9807.
IsTransverseMercatorTree ==
    /\ cs.tag = "Projected_cs"
    /\ SameNoCase(cs.projection.authority.name, s_EPSG)
    /\ cs.projection.authority.code = s_9807

\* C12: a Projected_cs tree with projection authority EPSG:9807 and the
\* five PARAMETER clauses latitude_of_origin, central_meridian,
\* scale_factor, false_easting, false_northing, without AUTHORITY, is built
\* without failure as a Transverse_mercator_srs whose slots for 8801, 8802,
\* 8805, 8806 and 8807 hold the five values given.
C12_TransverseMercatorEndToEnd ==
    (/\ Returned /\ IsTransverseMercatorTree
     /\ cs.parameters = TransverseMercatorParameters)
    => /\ pc = "built" /\ res = FALSE /\ errors = <<>>
       /\ obj.kind = "Transverse_mercator_srs"
       /\ init_params(obj.kind) = <<8801, 8802, 8805, 8806, 8807>>
       /\ obj.slots = [j \in 1..5 |-> TransverseMercatorParameters[j].value]

\* C12 witness: the call on that tree, with towgs84 and both AXIS pairs
\* valid, has built its object.
C12_Witness ==
    /\ pc = "built" /\ IsTransverseMercatorTree
    /\ cs.parameters = TransverseMercatorParameters
    /\ cs.axes.valid /\ cs.geographic_cs.axes.valid
    /\ cs.geographic_cs.datum.towgs84.valid
    /\ obj.slots = <<31, 32, 33, 34, 35>>

---------------------------------------------------------------------------
(* C13 *)

\* The Geographic_srs part of the object the call returned.
GeographicPart == IF obj.kind = "Geographic_srs" THEN obj
                  ELSE obj.geographic_srs

\* The grammar supplied numbers for the ellipsoid, the prime meridian and
\* the units of the tree in cs.
TreeHasNumbers ==
    LET g == IF cs.tag = "Projected_cs" THEN cs.geographic_cs ELSE cs
    IN  /\ ~isnan(g.datum.spheroid.semi_major_axis)
        /\ ~isnan(g.datum.spheroid.inverse_flattening)
        /\ ~isnan(g.prime_meridian.longitude)
        /\ ~isnan(g.angular_unit.conversion_factor)
        /\ cs.tag = "Projected_cs" => ~isnan(cs.linear_unit.conversion_factor)

\* C13: in every object a successful parse_wkt returned (the grammar
\* having supplied numbers for ellipsoid, prime meridian and units) no
\* mandatory field is NAN: semi-major axis, inverse flattening, prime
\* meridian, angular unit and, for a projected object, the linear unit and
\* every projection parameter of its class.
C13_NoNanInBuiltObject ==
    (pc = "built" /\ TreeHasNumbers) =>
       /\ ~isnan(GeographicPart.semi_major_axis)
       /\ ~isnan(GeographicPart.inverse_flattening)
       /\ ~isnan(GeographicPart.prime_meridian)
       /\ ~isnan(GeographicPart.angular_unit)
       /\ obj.kind # "Geographic_srs" =>
             /\ ~isnan(obj.linear_unit)
             /\ Len(obj.slots) = Len(init_params(obj.kind))
             /\ \A j \in 1..Len(obj.slots) : ~isnan(obj.slots[j])

\* C13 witness: a Popular Visualisation Pseudo Mercator object (EPSG:1024)
\* has been built with its four parameters filled from the tree.
C13_Witness ==
    /\ pc = "built" /\ TreeHasNumbers
    /\ obj.kind = "Popular_visualisation_pseudo_mercator_srs"
    /\ obj.slots = <<31, 32, 34, 35>>
    /\ obj.linear_unit = 15
    /\ obj.geographic_srs.semi_major_axis = 11

---------------------------------------------------------------------------
(* C14 *)

\* The axis pair an object must hold after init from a tree node c.
AxisPair(c) ==
    IF c.axes.valid THEN <<c.axes.x.direction, c.axes.y.direction>>
    ELSE <<"UNSPECIFIED", "UNSPECIFIED">>

\* The seven datum-shift values an object must hold after init from the
\* Geographic_cs node g.
ShiftValues(g) ==
    IF g.datum.towgs84.valid
    THEN <<g.datum.towgs84.dx, g.datum.towgs84.dy, g.datum.towgs84.dz,
           g.datum.towgs84.ex, g.datum.towgs84.ey, g.datum.towgs84.ez,
           g.datum.towgs84.ppm>>
    ELSE Geographic_srs.towgs84

\* C14: in every object parse_wkt returned the axis pair is both
\* directions of the tree when the AXIS clause is valid and both
\* UNSPECIFIED when it is not, for the projected object and for its
\* nested geographic part each by its own clause, and the seven TOWGS84
\* values are all seven of the tree when the clause is valid and all as
\* constructed when it is not.
C14_AxesAndShiftAllOrNothing ==
    pc = "built" =>
       IF cs.tag = "Projected_cs"
       THEN /\ obj.axes = AxisPair(cs)
            /\ obj.geographic_srs.axes = AxisPair(cs.geographic_cs)
            /\ obj.geographic_srs.towgs84 = ShiftValues(cs.geographic_cs)
       ELSE /\ obj.axes = AxisPair(cs)
            /\ obj.towgs84 = ShiftValues(cs)

\* C14 witness: a projected object has been built from a tree whose own
\* AXIS clause is valid while the nested geographic node has neither a
\* valid AXIS clause nor a valid TOWGS84 clause.
C14_Witness ==
    /\ pc = "built" /\ cs.tag = "Projected_cs"
    /\ cs.axes.valid
    /\ ~cs.geographic_cs.axes.valid
    /\ cs.geographic_cs.axes.x.direction # "UNSPECIFIED"
    /\ ~cs.geographic_cs.datum.towgs84.valid
    /\ obj.axes = <<"EAST", "NORTH">>
    /\ obj.geographic_srs.axes = <<"UNSPECIFIED", "UNSPECIFIED">>
    /\ \A k \in 1..7 : isnan(obj.geographic_srs.towgs84[k])

---------------------------------------------------------------------------
(* C15 *)

\* C15: for a null or empty span parse_wkt, once it has left its first
\* step, has returned failure with exactly one ER_SRS_PARSE_ERROR carrying
\* the SRID, reported by parse_wkt itself, and neither called the grammar
\* nor allocated an object; before that step nothing has been reported.
C15_EmptySpanOneDiagnostic ==
    EmptySpan =>
       /\ grammar_calls = 0 /\ allocs = 0 /\ heap = {} /\ obj = NoObject
       /\ pc \in {"start", "failed"}
       /\ pc = "start" => errors = <<>>
       /\ pc = "failed" =>
             /\ res = TRUE
             /\ errors = <<parse_error(srid, "parse_wkt")>>
             /\ errors[1].error = "ER_SRS_PARSE_ERROR"
             /\ errors[1].srid = srid

\* C15 witness: a call with SRID 32632 on a null span has returned with
\* its one diagnostic.
C15_Witness ==
    /\ pc = "failed" /\ span = "null" /\ srid = 32632
    /\ Len(errors) = 1 /\ errors[1].srid = 32632
    /\ grammar_calls = 0 /\ allocs = 0

---------------------------------------------------------------------------
(* C16 *)

\* The steps of a call in the order the code reaches them.
Rank(p) ==
    CASE p = "start" -> 0
      [] p = "grammar" -> 1
      [] p \in {"dispatch_geographic", "dispatch_projected"} -> 2
      [] p \in {"built", "failed"} -> 3

\* The moves between steps: forward along start, grammar, one of the two
\* dispatch steps, terminal; a failure may end the call from any step;
\* built is entered from a dispatch step only.
StepForward ==
    /\ Rank(pc') > Rank(pc)
    /\ Rank(pc') = Rank(pc) + 1 \/ pc' = "failed"

\* C16: every parse_wkt call ends in exactly one of built and failed and
\* stays there, moving only forward along start, grammar, dispatch,
\* terminal: a dispatch step is entered only from the grammar step after
\* the grammar succeeded, at most one dispatch step runs and no step is
\* entered twice.
C16_RunsForwardToOneOutcome ==
    /\ <>Returned
    /\ [][StepForward]_vars
    /\ [](Rank(pc) = 2 =>
             /\ grammar_calls = 1 /\ res = FALSE /\ errors = <<>>
             /\ cs # NoTree /\ branches = {})
    /\ [](/\ Cardinality(branches) <= 1 /\ allocs <= 1
          /\ grammar_calls <= 1
          /\ branches # {} => Returned
          /\ pc = "built" => res = FALSE
          /\ pc = "failed" => res = TRUE)

\* C16 witness: a call has gone through the grammar step and the projected
\* dispatch step and ended failed.
C16_Witness ==
    /\ pc = "failed" /\ grammar_calls = 1
    /\ branches = {"projected"} /\ allocs = 1
    /\ cs.tag = "Projected_cs"

---------------------------------------------------------------------------
(* C17 *)

\* C17: Geographic_srs::init returns false (success) for every
\* Geographic_cs tree, so a call whose tree is a Geographic_cs returns
\* success with a Geographic_srs object and no diagnostic, and in a
\* projected build the base step with its nested geographic step returns
\* false, a failed projected build being one whose set_parameters failed.
C17_GeographicBuilderNeverFails ==
    /\ pc = "start" =>
          \A g \in GeographicTrees, id \in SRIDs :
             /\ ~Geographic_srs_init(Geographic_srs, g).ret
             /\ ~create_geographic_srs(id, g).ret
             /\ create_geographic_srs(id, g).errors = <<>>
    /\ (Returned /\ cs.tag = "Geographic_cs") =>
          /\ pc = "built" /\ res = FALSE /\ errors = <<>>
          /\ obj.kind = "Geographic_srs"
          /\ result \in heap
    /\ (Returned /\ cs.tag = "Projected_cs") =>
          LET self == Projected_srs(DispatchedKind)
              base == Projected_srs_init(self, srid, cs)
          IN  /\ ~base.ret /\ base.errors = <<>>
              /\ ~Geographic_srs_init(self.geographic_srs,
                                      cs.geographic_cs).ret
              /\ pc = "failed" =>
                    /\ DispatchedKind # "Unknown_projected_srs"
                    /\ set_parameters(srid, cs.parameters,
                                      init_params(DispatchedKind),
                                      base.self.slots).ret
                    /\ ReportedBy("set_parameters") = 1..Len(errors)

\* C17 witness: a Geographic_srs object has been built from a tree that
\* has neither a valid TOWGS84 clause nor a valid AXIS clause.
C17_Witness ==
    /\ pc = "built" /\ cs.tag = "Geographic_cs"
    /\ ~cs.datum.towgs84.valid /\ ~cs.axes.valid
    /\ obj.kind = "Geographic_srs" /\ res = FALSE

---------------------------------------------------------------------------
(* C19, C20: properties of set_parameters, checked under
   SpecSetParameters. *)

\* The positions of the parameters that carry an EPSG authority clause.
EpsgPositions ==
    {i \in 1..Len(sp_parameters) : HasEpsgAuthority(sp_parameters[i])}

\* C19: a parameter whose authority name is EPSG is assigned to a
\* descriptor exactly when its authority code is the decimal form of the
\* descriptor's code, whatever its name; when no descriptor has that code
\* it is assigned nowhere, and a call all of whose parameters are such
\* leaves every slot as it was.
C19_EpsgMatchedByCodeOnly ==
    sp_pc = "done" =>
       /\ \A i \in EpsgPositions : \A j \in 1..Len(sp_params) :
             <<i, j>> \in sp_hits <=>
                SameNoCase(sp_parameters[i].authority.code,
                           to_string(sp_params[j]))
       /\ (/\ EpsgPositions = 1..Len(sp_parameters)
           /\ \A i \in EpsgPositions : \A j \in 1..Len(sp_params) :
                 ~SameNoCase(sp_parameters[i].authority.code,
                             to_string(sp_params[j])))
          => sp_slots = sp_slots0

\* C19 witness: a parameter with authority EPSG:8823 that carries the
\* canonical name of a descriptor of the list has been ignored, the list
\* having no descriptor 8823, and the slots are as they were.
C19_Witness ==
    /\ sp_pc = "done"
    /\ sp_params # <<>>
    /\ EpsgPositions = 1..Len(sp_parameters)
    /\ \E i \in EpsgPositions : \E j \in 1..Len(sp_params) :
          /\ SameNoCase(sp_parameters[i].name, param_names(sp_params[j]))
          /\ ~isnan(sp_parameters[i].value)
    /\ sp_hits = {}
    /\ sp_slots = sp_slots0

\* C20 as claimed: a parameter with no authority clause or with a non-EPSG
\* authority is assigned to a descriptor exactly when its name equals the
\* descriptor's canonical name or declared alias, its authority code
\* playing no part; one whose name matches no descriptor assigns nothing.
C20_AsClaimed ==
    sp_pc = "done" =>
       \A i \in (1..Len(sp_parameters)) \ EpsgPositions :
          \A j \in 1..Len(sp_params) :
             <<i, j>> \in sp_hits <=>
                \/ SameNoCase(sp_parameters[i].name,
                              param_names(sp_params[j]))
                \/ /\ DeclaresAlias(sp_params[j])
                   /\ SameNoCase(sp_parameters[i].name,
                                 param_aliases(sp_params[j]))

---------------------------------------------------------------------------
(* C18 *)

\* What parse_wkt(id, span, result) produces when it runs alone, gr being
\* what the grammar makes of the text (NoTree when it rejects it): the
\* flag returned, the diagnostics, whether *result was written and the
\* object it then points to.
AloneOutcome(id, sp, gr) ==
    IF sp \in {"null", "empty"}
    THEN [ret |-> TRUE, errors |-> <<parse_error(id, "parse_wkt")>>,
          wrote |-> FALSE, object |-> NoObject]
    ELSE IF gr = NoTree
    THEN [ret |-> TRUE, errors |-> <<parse_error(id, "wkt_parser")>>,
          wrote |-> FALSE, object |-> NoObject]
    ELSE LET r == IF gr.tag = "Projected_cs"
                  THEN create_projected_srs(id, gr)
                  ELSE create_geographic_srs(id, gr)
         IN  [ret |-> r.ret, errors |-> r.errors, wrote |-> TRUE,
              object |-> IF r.ret THEN NoObject ELSE r.new_object]

\* AloneOutcome is the outcome of the single call of Spec.
AloneIsSingleCall ==
    Returned =>
       LET a == AloneOutcome(srid, span, cs)
       IN  /\ res = a.ret /\ errors = a.errors /\ obj = a.object
           /\ IF ~a.wrote THEN result = result0
              ELSE IF a.ret THEN result = NULLPTR
              ELSE result \in heap

CallReturned(c) == c_pc[c] \in {"built", "failed"}

\* C18: whatever the interleaving of the callers' steps and whatever calls
\* came before, a call that has returned has the failure flag, the
\* diagnostics and the object (or the untouched or nulled slot) that the
\* same call has when run alone, and two callers never hold the same
\* object.
C18_CallsDoNotInterfere ==
    /\ \A c \in Callers :
          CallReturned(c) =>
             LET a == AloneOutcome(c_in[c].srid, c_in[c].span,
                                   c_in[c].grammar)
             IN  /\ c_flag[c] = a.ret
                 /\ (c_pc[c] = "failed") = a.ret
                 /\ c_errors[c] = a.errors
                 /\ IF ~a.wrote THEN c_result[c] = c_result0[c]
                    ELSE IF a.ret THEN c_result[c] = NULLPTR
                    ELSE /\ c_result[c] \in DOMAIN c_heap
                         /\ c_heap[c_result[c]] = a.object
    /\ \A c1, c2 \in Callers :
          (c1 # c2 /\ c_pc[c1] = "built" /\ c_pc[c2] = "built")
             => c_result[c1] # c_result[c2]

\* C18 witness: caller 1, in its second call, has been handed a Transverse
\* Mercator object allocated after the object of caller 2, whose call on
\* another tree has not returned yet.
C18_Witness ==
    /\ c_pc[1] = "built" /\ c_calls[1] = 2
    /\ c_pc[2] = "return" /\ c_calls[2] = 1
    /\ c_in[2].grammar # c_in[1].grammar
    /\ c_result[2] = FIRST_NEW /\ c_result[1] = FIRST_NEW + 1
    /\ c_heap[c_result[1]].kind = "Transverse_mercator_srs"
    /\ c_heap[c_result[2]].kind = "Geographic_srs"

---------------------------------------------------------------------------
(* C21 *)

\* Descriptor j is optional and ignored: seeded with a number, matched by
\* no parameter of the list.
DefaultKept(j) == ~Mandatory(j) /\ Matching(j) = {}

\* C21: every slot that no parameter matches holds after the call what it
\* held before it; a slot seeded with a default number and matched by no
\* parameter is never the cause of failure: a call whose descriptors are
\* all of that kind succeeds without a diagnostic, and a failing call
\* reports a descriptor that was seeded NAN or was matched.
C21_UnmatchedSlotUnchanged ==
    sp_pc = "done" =>
       /\ \A j \in 1..Len(sp_params) :
             Matching(j) = {} => sp_slots[j] = sp_slots0[j]
       /\ (\A j \in 1..Len(sp_params) : DefaultKept(j))
             => (sp_ret = FALSE /\ sp_errors = <<>>)
       /\ sp_ret = TRUE =>
             \E k \in 1..Len(sp_params) :
                /\ ~DefaultKept(k)
                /\ sp_errors = <<MissingDiagnostic(k)>>

\* C21 witness: a successful call with a non-empty PARAMETER list in which
\* one descriptor is matched and another, seeded 0, is matched by nothing
\* and still holds 0.
C21_Witness ==
    /\ sp_pc = "done"
    /\ sp_ret = FALSE
    /\ Len(sp_params) = 2
    /\ \E j, k \in 1..2 :
          /\ DefaultKept(j)
          /\ sp_slots[j] = 0
          /\ Matching(k) # {}
          /\ sp_slots[k] # sp_slots0[k]

---------------------------------------------------------------------------
(* C22 *)

\* prm names no descriptor of the list: with an EPSG authority its code is
\* not the code of any descriptor, without one its name is neither the
\* canonical name nor the declared alias of any descriptor.
NamesNoDescriptor(prm) ==
    \A j \in 1..Len(sp_params) :
       IF HasEpsgAuthority(prm)
       THEN ~SameNoCase(prm.authority.code, to_string(sp_params[j]))
       ELSE /\ ~SameNoCase(prm.name, param_names(sp_params[j]))
            /\ ~(/\ DeclaresAlias(sp_params[j])
                 /\ SameNoCase(prm.name, param_aliases(sp_params[j])))

\* The PARAMETER list of the call without the parameters that name no
\* descriptor.
NamingParameters == SelectSeq(sp_parameters, LAMBDA p : ~NamesNoDescriptor(p))

\* C22 as claimed: the parameters that name no descriptor of the list
\* (unrecognised name, or EPSG code not in the list) are ignored: the call
\* returns the flag, the slot values and the diagnostics of the call on
\* the list without them, wherever in the list they stand.
C22_AsClaimed ==
    sp_pc = "done" =>
       LET r == set_parameters(sp_srid, NamingParameters, sp_params,
                               sp_slots0)
       IN  /\ sp_ret = r.ret
           /\ sp_slots = r.slots
           /\ sp_errors = r.errors

---------------------------------------------------------------------------
(* C23 *)

\* The Geographic_cs node the geographic part of the object was built
\* from.
GeographicNode == IF cs.tag = "Projected_cs" THEN cs.geographic_cs ELSE cs

\* C23: in every object parse_wkt returned, the geographic part holds the
\* tree's dx, dy, dz, ex, ey, ez, ppm at positions 0 to 6 of m_towgs84
\* when the TOWGS84 clause is valid and the seven values of the
\* constructor when it is not, and in both cases the tree's semi-major
\* axis, inverse flattening, prime meridian longitude and angular unit
\* factor.
C23_ShiftCopiedInOrder ==
    pc = "built" =>
       /\ IF GeographicNode.datum.towgs84.valid
          THEN /\ GeographicPart.towgs84[1] = GeographicNode.datum.towgs84.dx
               /\ GeographicPart.towgs84[2] = GeographicNode.datum.towgs84.dy
               /\ GeographicPart.towgs84[3] = GeographicNode.datum.towgs84.dz
               /\ GeographicPart.towgs84[4] = GeographicNode.datum.towgs84.ex
               /\ GeographicPart.towgs84[5] = GeographicNode.datum.towgs84.ey
               /\ GeographicPart.towgs84[6] = GeographicNode.datum.towgs84.ez
               /\ GeographicPart.towgs84[7] = GeographicNode.datum.towgs84.ppm
          ELSE \A k \in 1..7 :
                  GeographicPart.towgs84[k] = Geographic_srs.towgs84[k]
       /\ Len(GeographicPart.towgs84) = 7
       /\ GeographicPart.semi_major_axis =
             GeographicNode.datum.spheroid.semi_major_axis
       /\ GeographicPart.inverse_flattening =
             GeographicNode.datum.spheroid.inverse_flattening
       /\ GeographicPart.prime_meridian = GeographicNode.prime_meridian.longitude
       /\ GeographicPart.angular_unit =
             GeographicNode.angular_unit.conversion_factor

\* C23 witness: a Geographic_srs object has been built from a tree with a
\* valid TOWGS84 clause of seven different values and holds them in the
\* order dx, dy, dz, ex, ey, ez, ppm next to the four scalars.
C23_Witness ==
    /\ pc = "built" /\ cs.tag = "Geographic_cs"
    /\ cs.datum.towgs84.valid
    /\ \A k, l \in 1..7 : k # l => obj.towgs84[k] # obj.towgs84[l]
    /\ obj.towgs84 = <<21, 22, 23, 24, 25, 26, 27>>
    /\ obj.semi_major_axis = 11 /\ obj.inverse_flattening = 12
    /\ obj.prime_meridian = 13 /\ obj.angular_unit = 14

---------------------------------------------------------------------------
(* C24 *)

\* Another linear unit factor than the one of the trees.
OtherLinearUnit == 16

\* C24: the geographic value inside a projected object parse_wkt returned
\* is, field for field, the object create_geographic_srs builds from the
\* tree's nested Geographic_cs node, and it is the same in the object
\* built from the tree with its own axis clause made valid or invalid,
\* with its PARAMETER list replaced by the empty or by the full Transverse
\* Mercator list, or with another linear unit.
C24_NestedGeographicIndependent ==
    (pc = "built" /\ cs.tag = "Projected_cs") =>
       /\ obj.geographic_srs =
             create_geographic_srs(srid, cs.geographic_cs).new_object
       /\ \A a \in BOOLEAN : \A ps \in {<<>>, TransverseMercatorParameters} :
             create_projected_outcomes[
                 srid, [cs EXCEPT !.axes = Axes(a, "EAST", "NORTH"),
                                  !.parameters = ps]
               ].new_object.geographic_srs = obj.geographic_srs
       /\ Projected_srs_init(
             Projected_srs(obj.kind), srid,
             [cs EXCEPT !.linear_unit.conversion_factor = OtherLinearUnit]
            ).self.geographic_srs = obj.geographic_srs

\* C24 witness: a projected object has been built from a tree with a
\* valid axis clause of its own and parameters, over a geographic node
\* with a valid axis clause in other directions and a valid TOWGS84
\* clause, and its geographic value carries the geographic node's axes.
C24_Witness ==
    /\ pc = "built" /\ cs.tag = "Projected_cs"
    /\ cs.axes.valid /\ cs.geographic_cs.axes.valid
    /\ cs.geographic_cs.datum.towgs84.valid
    /\ cs.parameters # <<>>
    /\ obj.axes = <<"EAST", "NORTH">>
    /\ obj.geographic_srs.axes = <<"NORTH", "EAST">>
    /\ obj.geographic_srs.kind = "Geographic_srs"
    /\ obj.geographic_srs.towgs84[1] = 21

---------------------------------------------------------------------------
(* C25 *)

\* The projected object o holds the geographic fields, the linear unit
\* and, where the AXIS clauses are valid, the axis pairs of the
\* Projected_cs tree p.
BaseFieldsOf(o, p) ==
    /\ o.geographic_srs = create_geographic_srs(0, p.geographic_cs).new_object
    /\ o.linear_unit = p.linear_unit.conversion_factor
    /\ o.axes = AxisPair(p)

\* C25: for a tree dispatched to a catalogued projection class, the flag
\* parse_wkt returns is the OR of the flag of Projected_srs::init and the
\* flag of set_parameters on the class's descriptor list, the diagnostics
\* are those of the base step followed by those of set_parameters, and
\* set_parameters has run on the object the base step filled whether the
\* call fails or not: the object the create function leaves holds the
\* slots set_parameters wrote and the base fields of the tree, also when
\* a missing parameter has been reported.
C25_InitIsBaseOrParameters ==
    (/\ Returned /\ cs.tag = "Projected_cs"
     /\ DispatchedKind # "Unknown_projected_srs") =>
       LET made == create_projected_outcomes[srid, cs]
           base == Projected_srs_init(Projected_srs(DispatchedKind), srid, cs)
           sp == set_parameters(srid, cs.parameters,
                                init_params(DispatchedKind),
                                base.self.slots)
       IN  /\ res = (base.ret \/ sp.ret)
           /\ errors = base.errors \o sp.errors
           /\ made.new_object.kind = DispatchedKind
           /\ made.new_object.slots = sp.slots
           /\ BaseFieldsOf(made.new_object, cs)
           /\ pc = "failed" =>
                 /\ sp.ret
                 /\ Len(errors) = 1
                 /\ errors[1].error = "ER_SRS_PROJ_PARAMETER_MISSING"

\* C25 witness: a Transverse Mercator build has failed on a missing
\* false_northing after the parameters before it were stored, and the
\* object the create function left holds the linear unit, the projected
\* axes and the geographic fields of the tree.
C25_Witness ==
    /\ pc = "failed" /\ cs.tag = "Projected_cs"
    /\ DispatchedKind = "Transverse_mercator_srs"
    /\ cs.axes.valid /\ cs.geographic_cs.datum.towgs84.valid
    /\ Len(errors) = 1 /\ errors[1].epsg_code = 8807
    /\ create_projected_outcomes[srid, cs].new_object.linear_unit = 15
    /\ create_projected_outcomes[srid, cs].new_object.axes = <<"EAST", "NORTH">>
    /\ create_projected_outcomes[srid, cs].new_object.slots[1] = 31
    /\ create_projected_outcomes[srid, cs].new_object.geographic_srs.semi_major_axis = 11

---------------------------------------------------------------------------
(* C26 *)

\* The call failed in the projected branch, that is in set_parameters.
FailedBySetParameters == pc = "failed" /\ branches = {"projected"}

\* The positions of the PARAMETER clauses of the tree in cs that match
\* descriptor j of the dispatched class.
TreeMatching(j) ==
    {i \in 1..Len(cs.parameters) :
        Matched(cs.parameters[i], init_params(DispatchedKind)[j])}

\* The descriptors of the dispatched class that no PARAMETER clause of the
\* tree in cs matches.
TreeUnmatched ==
    {j \in 1..Len(init_params(DispatchedKind)) : TreeMatching(j) = {}}

\* The descriptors whose slot is NAN after matching: unmatched, or last
\* matched by a clause that carries NAN.
TreeUnset ==
    {j \in 1..Len(init_params(DispatchedKind)) :
        \/ TreeMatching(j) = {}
        \/ isnan(cs.parameters[Last(TreeMatching(j))].value)}

\* The one diagnostic of a failed set_parameters names descriptor j.
NamesDescriptor(j) ==
    /\ errors[1].epsg_code = init_params(DispatchedKind)[j]
    /\ errors[1].name = param_names(init_params(DispatchedKind)[j])

\* C26 as claimed: a call that failed in set_parameters has reported
\* exactly one diagnostic and, when several descriptors are matched by no
\* parameter, that diagnostic names the first of them in list order.
C26_AsClaimed ==
    FailedBySetParameters =>
       /\ Len(errors) = 1
       /\ Cardinality(TreeUnmatched) >= 2 =>
             \E j \in TreeUnmatched :
                (\A k \in TreeUnmatched : j <= k) /\ NamesDescriptor(j)

\* C26 amended: a call that failed in set_parameters has reported exactly
\* one diagnostic, a missing-parameter one that names, by canonical name
\* and code, the first descriptor in list order whose slot is NAN after
\* matching (unmatched, or last matched by a parameter that carries NAN),
\* however many there are; when the last matching parameters carry
\* numbers that is the first unmatched descriptor.  A call that failed on
\* its span has reported exactly one diagnostic too, and a successful
\* call none.
C26_OneDiagnosticPerFailure ==
    /\ FailedBySetParameters =>
          /\ Len(errors) = 1
          /\ errors[1].error = "ER_SRS_PROJ_PARAMETER_MISSING"
          /\ errors[1].by = "set_parameters"
          /\ errors[1].srid = srid
          /\ TreeUnset # {}
          /\ \E j \in TreeUnset :
                (\A k \in TreeUnset : j <= k) /\ NamesDescriptor(j)
          /\ TreeUnset = TreeUnmatched =>
                \E j \in TreeUnmatched :
                   (\A k \in TreeUnmatched : j <= k) /\ NamesDescriptor(j)
    /\ (pc = "failed" /\ EmptySpan) => Len(errors) = 1
    /\ pc = "built" => errors = <<>>

\* C26 witness: a Transverse Mercator build whose tree leaves at least two
\* descriptors unmatched has failed with the one diagnostic of the first
\* of them.
C26_Witness ==
    /\ FailedBySetParameters
    /\ DispatchedKind = "Transverse_mercator_srs"
    /\ Cardinality(TreeUnmatched) >= 2
    /\ TreeUnset = TreeUnmatched
    /\ cs.parameters # <<>>
    /\ Len(errors) = 1
    /\ NamesDescriptor(1)
    /\ errors[1].epsg_code = 8801
    /\ errors[1].name = s_latitude_of_origin

---------------------------------------------------------------------------
(* parse_wkt on PROJCS texts whose PROJECTION element carries authority
   clauses of many forms. *)

s_sp9807 == <<" ", "9", "8", "0", "7">>
s_plus9807 == <<"+", "9", "8", "0", "7">>
s_minus9807 == <<"-", "9", "8", "0", "7">>
s_09807 == <<"0", "9", "8", "0", "7">>
s_9807sp == <<"9", "8", "0", "7", " ">>
s_98070 == <<"9", "8", "0", "7", "0">>
s_abc9807 == <<"a", "b", "c", "9", "8", "0", "7">>
s_sp_plus_001024x == <<"\t", " ", "+", "0", "0", "1", "0", "2", "4", "x">>
s_0 == <<"0">>
s_vt9807 == <<"", "9", "8", "0", "7">>
s_2147483648 == <<"2", "1", "4", "7", "4", "8", "3", "6", "4", "8">>
s_99999999999 == <<"9", "9", "9", "9", "9", "9", "9", "9", "9", "9", "9">>

\* Authority code strings of the PROJECTION element.
AuthorityCodes ==
    {s_9807, s_9807abc, s_sp9807, s_plus9807, s_minus9807, s_09807,
     s_9807sp, s_98070, s_abc9807, s_sp_plus_001024x, s_0, s_2147483648,
     s_99999999999, s_1024, s_9814, s_ABC, s_vt9807, <<>>}

\* Authority names of the PROJECTION element.
AuthorityNames == {s_EPSG, s_epsg, s_ESRI, <<>>}

\* Projected_cs trees with these authority clauses, with the full
\* Transverse Mercator PARAMETER list or none.
AuthorityTrees ==
    {[tag |-> "Projected_cs",
      geographic_cs |-> g,
      projection |-> [authority |-> [name |-> an, code |-> ac]],
      parameters |-> ps,
      linear_unit |-> [conversion_factor |-> 15],
      axes |-> Axes(TRUE, "EAST", "NORTH")] :
        g \in GeographicTrees, an \in AuthorityNames, ac \in AuthorityCodes,
        ps \in {<<>>, TransverseMercatorParameters}}

\* The grammar succeeds and leaves one of these trees in cs.
GrammarSucceedsProjected ==
    /\ pc = "grammar"
    /\ grammar_calls' = grammar_calls + 1
    /\ res' = FALSE
    /\ cs' \in AuthorityTrees
    /\ pc' = "dispatch_projected"
    /\ UNCHANGED <<srid, span, result, result0, heap, obj, allocs, errors,
                   branches>>
    /\ UNCHANGED <<sp_vars, np_vars, cc_vars>>

\* parse_wkt, the branch taken when cs holds a Projected_cs.
DispatchProjectedTree ==
    /\ pc = "dispatch_projected"
    /\ FinishBranch(create_projected_srs(srid, cs), "projected")
    /\ UNCHANGED <<srid, span, result0, cs, grammar_calls>>
    /\ UNCHANGED <<sp_vars, np_vars, cc_vars>>

NextProjected ==
    \/ CheckSpan
    \/ GrammarFails
    \/ GrammarSucceedsProjected
    \/ DispatchProjectedTree

SpecProjected == Init /\ [][NextProjected]_vars

---------------------------------------------------------------------------
(* C27 *)

\* s is exactly the decimal form of the catalogued code c.
ExactlyDecimal(s, c) == s = to_string(c)

\* s reads as the catalogued code c: optional white space, an optional
\* plus sign, optional zeros, the decimal digits of c, and then the end of
\* the string or a character that is not a digit.
ReadsAs(s, c) ==
    \E n1, n2, n3 \in 0..Len(s) :
       /\ n1 <= n2 /\ n2 <= n3
       /\ \A k \in 1..n1 : isspace(s[k])
       /\ n2 \in {n1, n1 + 1}
       /\ n2 = n1 + 1 => s[n2] = "+"
       /\ \A k \in (n2 + 1)..n3 : s[k] = "0"
       /\ n3 + Len(to_string(c)) <= Len(s)
       /\ SubSeq(s, n3 + 1, n3 + Len(to_string(c))) = to_string(c)
       /\ \/ n3 + Len(to_string(c)) = Len(s)
          \/ ~isdigit(s[n3 + Len(to_string(c)) + 1])

\* The call has gone through the projected branch.
ProjectedReturned == Returned /\ branches = {"projected"}

\* C27 as claimed: unless the authority name is EPSG and the code string
\* is exactly the decimal form of a catalogued code, the tree resolves to
\* Unknown_projected_srs (which is built whatever the parameters).
C27_AsClaimed ==
    (/\ ProjectedReturned
     /\ ~(/\ SameNoCase(cs.projection.authority.name, s_EPSG)
          /\ \E c \in Catalogued :
                ExactlyDecimal(cs.projection.authority.code, c)))
    => (pc = "built" /\ obj.kind = "Unknown_projected_srs")

\* C27 amended: a catalogued class is selected exactly when the authority
\* name is EPSG and the code string reads as a catalogued code the way
\* std::stoi reads it (white space, plus sign and zeros in front and
\* anything that is not a digit behind are accepted); the class is then
\* the one new_projection gives for that code, and every other authority
\* clause resolves to Unknown_projected_srs.
C27_VariantOfLeadingInteger ==
    ProjectedReturned =>
       IF /\ SameNoCase(cs.projection.authority.name, s_EPSG)
          /\ \E c \in Catalogued : ReadsAs(cs.projection.authority.code, c)
       THEN \A c \in Catalogued :
               ReadsAs(cs.projection.authority.code, c) =>
                  /\ pc = "built" => obj.kind = new_projection(c)
                  /\ pc = "built" <=> cs.parameters # <<>>
                  /\ pc = "failed" => ReportedBy("set_parameters") = {1}
       ELSE pc = "built" /\ obj.kind = "Unknown_projected_srs"

\* C27 witness: a tree with authority EPSG and a code string of white
\* space, a plus sign, zeros, 1024 and a letter has been built as a
\* Popular_visualisation_pseudo_mercator_srs.
C27_Witness ==
    /\ pc = "built" /\ branches = {"projected"}
    /\ cs.projection.authority.name = s_EPSG
    /\ cs.projection.authority.code = s_sp_plus_001024x
    /\ obj.kind = "Popular_visualisation_pseudo_mercator_srs"
    /\ obj.slots = <<31, 32, 34, 35>>

---------------------------------------------------------------------------
(* C28 *)

\* prm carries the canonical name or the declared alias of the code.
NamedAs(prm, code) ==
    \/ SameNoCase(prm.name, param_names(code))
    \/ (DeclaresAlias(code) /\ SameNoCase(prm.name, param_aliases(code)))

\* C28 as claimed: a parameter without EPSG authority is assigned to a
\* descriptor's slot only if its name is the descriptor's canonical name
\* or declared alias; a call whose parameters are all of that kind and
\* named as no descriptor of the list (the empty name among them) leaves
\* every slot as seeded and fails when a descriptor is mandatory.
C28_AsClaimed ==
    sp_pc = "done" =>
       /\ \A i \in (1..Len(sp_parameters)) \ EpsgPositions :
             \A j \in 1..Len(sp_params) :
                <<i, j>> \in sp_hits => NamedAs(sp_parameters[i], sp_params[j])
       /\ (/\ EpsgPositions = {}
           /\ \A i \in 1..Len(sp_parameters) : \A j \in 1..Len(sp_params) :
                 ~NamedAs(sp_parameters[i], sp_params[j]))
          => /\ sp_slots = sp_slots0
             /\ (\E j \in 1..Len(sp_params) : Mandatory(j)) => sp_ret = TRUE

---------------------------------------------------------------------------
(* C29: the descriptor lists and the name table, checked under
   SpecNewProjection, which allocates every class. *)

\* The codes that have an entry in param_names.
NamedCodes ==
    (1026..1036) \cup {1038, 1039, 8617, 8618, 8801, 8802, 8805, 8806, 8807}
    \cup (8811..8819) \cup (8821..8824) \cup {8826, 8827} \cup (8830..8833)

\* PARAMETER clauses with a non-empty name, tried one at a time against
\* the descriptor list params: every canonical name and alias of the
\* tables and a name outside them, as written and in upper case, without
\* authority, and a clause with EPSG authority for every code of the list.
ProbeParameters(params) ==
    {Parameter(Recase(n, m), <<>>, <<>>, 1) :
        n \in {param_names(c) : c \in NamedCodes}
              \cup {s_standard_parallel1, s_standard_parallel2, s_x},
        m \in {"upper", "lower"}}
    \cup {Parameter(s_x, s_EPSG, to_string(params[j]), 1) :
             j \in 1..Len(params)}

\* The descriptors of params to which set_parameters assigns prm.
SlotsAssigned(prm, params) ==
    {h[2] : h \in set_parameters(0, <<prm>>, params,
                                 [j \in 1..Len(params) |-> NAN]).hits}

\* C29: the descriptor list of every catalogued class has pairwise
\* different codes, each with a non-empty canonical name, and pairwise
\* different canonical names; a PARAMETER clause with a non-empty name is
\* assigned to at most one slot of the class.
C29_DescriptorsDistinct ==
    (np_pc = "done" /\ np_result # "Unknown_projected_srs") =>
       LET params == init_params(np_result)
       IN  /\ params # <<>>
           /\ \A j \in 1..Len(params) :
                 /\ params[j] \in NamedCodes
                 /\ param_names(params[j]) # <<>>
           /\ \A j, k \in 1..Len(params) :
                 j # k =>
                    /\ params[j] # params[k]
                    /\ ~SameNoCase(param_names(params[j]),
                                   param_names(params[k]))
           /\ \A prm \in ProbeParameters(params) :
                 Cardinality(SlotsAssigned(prm, params)) <= 1

\* C29 witness: Hotine Oblique Mercator (variant B, EPSG:9815) has been
\* allocated; its list holds 8815 (scale_factor) and 8816 (false_easting),
\* names that the table gives to other codes as well, and a PARAMETER
\* named scale_factor is assigned to the slot of 8815 alone.
C29_Witness ==
    /\ np_pc = "done" /\ np_code = 9815
    /\ np_result # "Unknown_projected_srs"
    /\ \E j \in 1..Len(init_params(np_result)) :
          /\ init_params(np_result)[j] = 8815
          /\ SlotsAssigned(Parameter(s_scale_factor, <<>>, <<>>, 1),
                           init_params(np_result)) = {j}
    /\ param_names(8815) = param_names(8805)
    /\ param_names(8816) = param_names(8806)

---------------------------------------------------------------------------
(* C30 *)

\* C30 as claimed: the call fails only if some mandatory descriptor has no
\* matching parameter, and the descriptor reported is one that no
\* parameter matches, whatever the values the parameters carry.
C30_AsClaimed ==
    (sp_pc = "done" /\ sp_ret = TRUE) =>
       /\ \E j \in 1..Len(sp_params) : Mandatory(j) /\ Matching(j) = {}
       /\ \A k \in 1..Len(sp_errors) :
             \E j \in 1..Len(sp_params) :
                /\ Matching(j) = {}
                /\ sp_errors[k] = MissingDiagnostic(j)

\* C30 amended: the call fails exactly when some descriptor's slot is NAN
\* after matching, which is a mandatory descriptor that no parameter
\* matches or a descriptor, mandatory or not, whose last matching
\* parameter carries NAN; the first such descriptor is the one reported,
\* so a matched parameter that carries NAN is reported as missing, and
\* with numbers in the last matching parameters the call fails only on an
\* unmatched mandatory descriptor.
C30_FailsExactlyOnNanSlot ==
    sp_pc = "done" =>
       /\ sp_ret = TRUE <=>
             \E j \in 1..Len(sp_params) :
                \/ Mandatory(j) /\ Matching(j) = {}
                \/ /\ Matching(j) # {}
                   /\ isnan(sp_parameters[Last(Matching(j))].value)
       /\ sp_ret = TRUE => sp_errors = <<MissingDiagnostic(FirstUnset)>>
       /\ sp_ret = FALSE => sp_errors = <<>>
       /\ (/\ sp_ret = TRUE
           /\ \A j \in 1..Len(sp_params) :
                 Matching(j) # {} =>
                    ~isnan(sp_parameters[Last(Matching(j))].value))
          => Mandatory(FirstUnset) /\ Matching(FirstUnset) = {}

\* C30 witness: a call whose only descriptor is optional (seeded 0) and is
\* matched, last by a parameter that carries NAN after one that carries a
\* number, has failed and reported that descriptor as missing.
C30_Witness ==
    /\ sp_pc = "done"
    /\ Len(sp_params) = 1 /\ ~Mandatory(1)
    /\ Cardinality(Matching(1)) = 2
    /\ isnan(sp_parameters[Last(Matching(1))].value)
    /\ sp_ret = TRUE
    /\ sp_errors = <<MissingDiagnostic(1)>>

============================================================================
